---------------------------- MODULE Spec2Model ----------------------------
(***************************************************************************)
(* The log analysis pipeline of rtools (src/src/loganalyzer.rs), its       *)
(* directory scan (src/src/dirscan.rs) and its text statistics             *)
(* (src/src/textstats.rs).                                                 *)
(*                                                                         *)
(* A string is a sequence of characters, a character a one-character       *)
(* string.  analyze_log_file is a state machine over the positions of its  *)
(* body; every run owns its file, its lines, its entries and its           *)
(* LogAnalysis.  scan_directory is a state machine over the calls of       *)
(* scan_directory_recursive, analyze_text one over the turns of its loop.  *)
(* Option<T> is <<>> for None and a non-empty tuple for Some.  A HashMap   *)
(* is a function with a finite domain.                                     *)
(***************************************************************************)
EXTENDS Integers, Sequences, FiniteSets, TLC

\* ------------------------------------------------------------------------
\* Characters and the str methods the analyzer calls
\* ------------------------------------------------------------------------

Digits == <<"0", "1", "2", "3", "4", "5", "6", "7", "8", "9">>

IsDigit(c) == \E i \in 1..10 : Digits[i] = c

DigitVal(c) == (CHOOSE i \in 1..10 : Digits[i] = c) - 1

\* char::is_whitespace on the characters of the model's alphabet.
IsWhitespace(c) == c \in {" ", "\t", "\n", "\r"}

UpperChars == <<"A", "B", "C", "D", "E", "F", "G", "H", "I", "J", "K", "L", "M",
                "N", "O", "P", "Q", "R", "S", "T", "U", "V", "W", "X", "Y", "Z",
                "É">>

LowerChars == <<"a", "b", "c", "d", "e", "f", "g", "h", "i", "j", "k", "l", "m",
                "n", "o", "p", "q", "r", "s", "t", "u", "v", "w", "x", "y", "z",
                "é">>

\* char::is_uppercase.
IsUppercase(c) == \E i \in 1..Len(UpperChars) : UpperChars[i] = c

\* char::to_lowercase.
CharToLower(c) ==
    IF IsUppercase(c)
    THEN LowerChars[CHOOSE i \in 1..Len(UpperChars) : UpperChars[i] = c]
    ELSE c

\* str::to_lowercase.
ToLowercase(s) == [i \in 1..Len(s) |-> CharToLower(s[i])]

\* The length of a character's UTF-8 encoding: 2 for the non-ASCII letters of
\* the alphabet, 1 for ASCII.
Utf8Len(c) == IF c \in {"É", "é"} THEN 2 ELSE 1

RECURSIVE ByteLen(_)
\* str::len: the length in bytes.
ByteLen(s) == IF s = <<>> THEN 0 ELSE Utf8Len(Head(s)) + ByteLen(Tail(s))

Min(S) == CHOOSE x \in S : \A y \in S : x <= y

Max(S) == CHOOSE x \in S : \A y \in S : x >= y

\* The k-th smallest element of a set of positions.
Kth(S, k) == CHOOSE p \in S : Cardinality({q \in S : q < p}) = k - 1

\* str::trim_start.
TrimStart(s) ==
    LET kept == {i \in 1..Len(s) : ~IsWhitespace(s[i])}
    IN  IF kept = {} THEN <<>> ELSE SubSeq(s, Min(kept), Len(s))

\* str::trim_end.
TrimEnd(s) ==
    LET kept == {i \in 1..Len(s) : ~IsWhitespace(s[i])}
    IN  IF kept = {} THEN <<>> ELSE SubSeq(s, 1, Max(kept))

\* str::trim.
Trim(s) == TrimEnd(TrimStart(s))

\* str::trim_start_matches(c): every leading c is removed.
TrimStartMatches(s, c) ==
    LET kept == {i \in 1..Len(s) : s[i] # c}
    IN  IF kept = {} THEN <<>> ELSE SubSeq(s, Min(kept), Len(s))

\* str::starts_with(c).
StartsWith(s, c) == s # <<>> /\ Head(s) = c

\* str::split(c): n occurrences of c give n + 1 parts, empty ones included.
Split(s, c) ==
    LET seps == {i \in 1..Len(s) : s[i] = c}
        n == Cardinality(seps)
        Pos(k) == IF k = 0 THEN 0 ELSE IF k = n + 1 THEN Len(s) + 1 ELSE Kth(seps, k)
    IN  [k \in 1..(n + 1) |-> SubSeq(s, Pos(k - 1) + 1, Pos(k) - 1)]

\* str::split_whitespace: the maximal runs of non-whitespace characters.
SplitWhitespace(s) ==
    LET starts == {i \in 1..Len(s) :
                     ~IsWhitespace(s[i]) /\ (i = 1 \/ IsWhitespace(s[i - 1]))}
        ends == {i \in 1..Len(s) :
                   ~IsWhitespace(s[i]) /\ (i = Len(s) \/ IsWhitespace(s[i + 1]))}
    IN  [k \in 1..Cardinality(starts) |-> SubSeq(s, Kth(starts, k), Kth(ends, k))]

RECURSIVE Join(_, _)
\* [&str]::join(sep).
Join(parts, sep) ==
    IF parts = <<>> THEN <<>>
    ELSE IF Len(parts) = 1 THEN parts[1]
    ELSE parts[1] \o sep \o Join(Tail(parts), sep)

StripCr(l) ==
    IF l # <<>> /\ l[Len(l)] = "\r" THEN SubSeq(l, 1, Len(l) - 1) ELSE l

\* content.split('\n') in place of content.lines(): the piece after the last
\* "\n" is a line too, also when it is empty.
LinesBySplit(text) == Split(text, "\n")

\* str::lines: split at "\n"; the final piece is a line only when it is not
\* empty; a "\r" right before a "\n" belongs to the line ending.
Lines(text) ==
    LET raw == Split(text, "\n")
        n == IF raw[Len(raw)] = <<>> THEN Len(raw) - 1 ELSE Len(raw)
    IN  [i \in 1..n |-> IF i < Len(raw) THEN StripCr(raw[i]) ELSE raw[i]]

\* ------------------------------------------------------------------------
\* chrono: NaiveDateTime::parse_from_str and DateTime::format
\* ------------------------------------------------------------------------

\* A DateTime<Utc> is <<year, month, day, hour, minute, second, nanosecond>>.

Num2(s, i) == 10 * DigitVal(s[i]) + DigitVal(s[i + 1])

Num4(s, i) == 100 * Num2(s, i) + Num2(s, i + 2)

IsLeapYear(y) == ((y % 4) = 0 /\ (y % 100) # 0) \/ (y % 400) = 0

DaysInMonth(y, m) ==
    IF m = 2 THEN (IF IsLeapYear(y) THEN 29 ELSE 28)
    ELSE IF m \in {4, 6, 9, 11} THEN 30 ELSE 31

AllDigits(s) == \A i \in 1..Len(s) : IsDigit(s[i])

RECURSIVE DigitsValue(_, _)
\* The first n digits of s as a number, s padded with zeros on the right.
DigitsValue(s, n) ==
    IF n = 0 THEN 0
    ELSE IF s = <<>> THEN 10 * DigitsValue(s, n - 1)
    ELSE DigitVal(Head(s)) * (10 ^ (n - 1)) + DigitsValue(Tail(s), n - 1)

\* The first 19 characters as "YYYY-MM-DD" sep "HH:MM:SS", the fields in range.
DateTimeShape(s, sep) ==
    /\ Len(s) >= 19
    /\ \A i \in {1, 2, 3, 4, 6, 7, 9, 10, 12, 13, 15, 16, 18, 19} : IsDigit(s[i])
    /\ s[5] = "-" /\ s[8] = "-" /\ s[11] = sep /\ s[14] = ":" /\ s[17] = ":"
    /\ Num2(s, 6) \in 1..12
    /\ Num2(s, 9) \in 1..DaysInMonth(Num4(s, 1), Num2(s, 6))
    /\ Num2(s, 12) <= 23 /\ Num2(s, 15) <= 59 /\ Num2(s, 18) <= 59

DateTimeOf(s, nanos) ==
    <<Num4(s, 1), Num2(s, 6), Num2(s, 9), Num2(s, 12), Num2(s, 15), Num2(s, 18), nanos>>

\* What follows the seconds, SubSeq(s, 20, Len(s)), under each format.
Rest(s) == SubSeq(s, 20, Len(s))

\* "%.3f" reads nothing, or a "." and the digits after it (nine are kept).
IsFraction(r) == r = <<>> \/ (Len(r) >= 2 /\ r[1] = "." /\ AllDigits(Tail(r)))

FractionNanos(r) == IF r = <<>> THEN 0 ELSE DigitsValue(Tail(r), 9)

\* NaiveDateTime::parse_from_str(s, format) for the four formats of
\* parse_timestamp, on candidates whose fields have the format's full width:
\* <<>> for Err, the date and time for Ok.
ParseFromStr(s, format) ==
    CASE format = 1 ->    \* "%Y-%m-%d %H:%M:%S"
           IF DateTimeShape(s, " ") /\ Rest(s) = <<>> THEN DateTimeOf(s, 0) ELSE <<>>
      [] format = 2 ->    \* "%Y-%m-%d %H:%M:%S%.3f"
           IF DateTimeShape(s, " ") /\ IsFraction(Rest(s))
           THEN DateTimeOf(s, FractionNanos(Rest(s))) ELSE <<>>
      [] format = 3 ->    \* "%Y-%m-%dT%H:%M:%S"
           IF DateTimeShape(s, "T") /\ Rest(s) = <<>> THEN DateTimeOf(s, 0) ELSE <<>>
      [] format = 4 ->    \* "%Y-%m-%dT%H:%M:%SZ"
           IF DateTimeShape(s, "T") /\ Rest(s) = <<"Z">> THEN DateTimeOf(s, 0) ELSE <<>>

NumFormats == 4

RECURSIVE TryFormats(_, _)
TryFormats(s, f) ==
    IF f > NumFormats THEN <<>>
    ELSE IF ParseFromStr(s, f) # <<>> THEN ParseFromStr(s, f)
    ELSE TryFormats(s, f + 1)

\* parse_timestamp: the first format that parses the candidate, or None.
parse_timestamp(timestamp_str) == TryFormats(timestamp_str, 1)

Pad2(n) == <<Digits[((n \div 10) % 10) + 1], Digits[(n % 10) + 1]>>

Pad4(n) == Pad2(n \div 100) \o Pad2(n % 100)

\* A key of day granularity: ts.format("%Y-%m-%d").
day_key(ts) ==
    Pad4(ts[1]) \o <<"-">> \o Pad2(ts[2]) \o <<"-">> \o Pad2(ts[3])

\* ts.format("%Y-%m-%d %H").to_string()
hour_key(ts) ==
    Pad4(ts[1]) \o <<"-">> \o Pad2(ts[2]) \o <<"-">> \o Pad2(ts[3]) \o <<" ">> \o Pad2(ts[4])

RECURSIVE TsCmp(_, _, _)
TsCmp(a, b, i) ==
    IF i > Len(a) THEN 0
    ELSE IF a[i] < b[i] THEN -1
    ELSE IF a[i] > b[i] THEN 1
    ELSE TsCmp(a, b, i + 1)

\* Ord for DateTime<Utc>: a <= b.
TsLeq(a, b) == TsCmp(a, b, 1) <= 0

\* ------------------------------------------------------------------------
\* LogLevel
\* ------------------------------------------------------------------------

\* A level is [tag, text]; text is the payload of Unknown and <<>> otherwise.
Debug == [tag |-> "Debug", text |-> <<>>]

Info == [tag |-> "Info", text |-> <<>>]

Warning == [tag |-> "Warning", text |-> <<>>]

Error == [tag |-> "Error", text |-> <<>>]

Critical == [tag |-> "Critical", text |-> <<>>]

Unknown(s) == [tag |-> "Unknown", text |-> s]

\* A classifier that keeps the lower-cased token in Unknown.
LogLevelParseKeepsLowercase(s) ==
    LET l == ToLowercase(s)
    IN  CASE l = <<"d", "e", "b", "u", "g">> -> Debug
          [] l = <<"i", "n", "f", "o">> -> Info
          [] l = <<"w", "a", "r", "n", "i", "n", "g">> \/ l = <<"w", "a", "r", "n">> -> Warning
          [] l = <<"e", "r", "r", "o", "r">> \/ l = <<"e", "r", "r">> -> Error
          [] l = <<"c", "r", "i", "t", "i", "c", "a", "l">> \/ l = <<"f", "a", "t", "a", "l">> -> Critical
          [] OTHER -> Unknown(l)

\* LogLevel::parse
LogLevelParse(s) ==
    LET l == ToLowercase(s)
    IN  CASE l = <<"d", "e", "b", "u", "g">> -> Debug
          [] l = <<"i", "n", "f", "o">> -> Info
          [] l = <<"w", "a", "r", "n", "i", "n", "g">> \/ l = <<"w", "a", "r", "n">> -> Warning
          [] l = <<"e", "r", "r", "o", "r">> \/ l = <<"e", "r", "r">> -> Error
          [] l = <<"c", "r", "i", "t", "i", "c", "a", "l">> \/ l = <<"f", "a", "t", "a", "l">> -> Critical
          [] OTHER -> Unknown(s)

\* A ranking that puts Unknown above Critical.
severity_unknown_highest(level) ==
    CASE level.tag = "Debug" -> 0
      [] level.tag = "Info" -> 1
      [] level.tag = "Warning" -> 2
      [] level.tag = "Error" -> 3
      [] level.tag = "Critical" -> 4
      [] level.tag = "Unknown" -> 5

\* LogLevel::severity
severity(level) ==
    CASE level.tag = "Debug" -> 0
      [] level.tag = "Info" -> 1
      [] level.tag = "Warning" -> 2
      [] level.tag = "Error" -> 3
      [] level.tag = "Critical" -> 4
      [] level.tag = "Unknown" -> 0

\* ------------------------------------------------------------------------
\* The line recognizer
\* ------------------------------------------------------------------------

\* Option<T>::None; Some(x) is a non-empty tuple.
None == <<>>

LogEntry(timestamp, level, message) ==
    [timestamp |-> timestamp, level |-> level, message |-> message,
     source |-> None, line_number |-> None]

\* parts.len() < 3 in both matchers.
MinParts == 3

\* A standard format that asks for two parts only (parts.len() < 2).
parse_standard_format_two_parts(line0) ==
    LET line == Trim(line0)
        parts == Split(line, "]")
    IN  IF ~StartsWith(line, "[") THEN None
        ELSE IF Len(parts) < MinParts - 1 THEN None
        ELSE <<LogEntry(parse_timestamp(TrimStartMatches(parts[1], "[")),
                        LogLevelParse(Trim(TrimStartMatches(parts[2], "["))),
                        Trim(Join(SubSeq(parts, 3, Len(parts)), <<"]">>)))>>

\* A standard format that gives up when parts[0] is no timestamp.
parse_standard_format_needs_timestamp(line0) ==
    LET line == Trim(line0)
        parts == Split(line, "]")
    IN  IF ~StartsWith(line, "[") THEN None
        ELSE IF Len(parts) < MinParts THEN None
        ELSE IF parse_timestamp(TrimStartMatches(parts[1], "[")) = None THEN None
        ELSE <<LogEntry(parse_timestamp(TrimStartMatches(parts[1], "[")),
                        LogLevelParse(Trim(TrimStartMatches(parts[2], "["))),
                        Trim(Join(SubSeq(parts, 3, Len(parts)), <<"]">>)))>>

\* A standard format whose message is parts[2] alone: cut at the next "]".
parse_standard_format_first_part(line0) ==
    LET line == Trim(line0)
        parts == Split(line, "]")
    IN  IF ~StartsWith(line, "[") THEN None
        ELSE IF Len(parts) < MinParts THEN None
        ELSE <<LogEntry(parse_timestamp(TrimStartMatches(parts[1], "[")),
                        LogLevelParse(Trim(TrimStartMatches(parts[2], "["))),
                        Trim(parts[3]))>>

\* parse_standard_format: <<>> for None, <<entry>> for Some(entry).
parse_standard_format(line0) ==
    LET line == Trim(line0)
        parts == Split(line, "]")
    IN  IF ~StartsWith(line, "[") THEN None
        ELSE IF Len(parts) < MinParts THEN None
        ELSE LET timestamp_str == TrimStartMatches(parts[1], "[")
                 level_str == Trim(TrimStartMatches(parts[2], "["))
                 message == Trim(Join(SubSeq(parts, 3, Len(parts)), <<"]">>))
             IN  <<LogEntry(parse_timestamp(timestamp_str),
                            LogLevelParse(level_str), message)>>

\* A simple format whose message starts at parts[2], the level token.
parse_simple_format_from_level(line) ==
    LET parts == SplitWhitespace(line)
    IN  IF Len(parts) < MinParts THEN None
        ELSE <<LogEntry(parse_timestamp(parts[1] \o <<" ">> \o parts[2]),
                        LogLevelParse(parts[3]),
                        Join(SubSeq(parts, 3, Len(parts)), <<" ">>))>>

\* A simple format that gives up when its first two tokens are no timestamp.
parse_simple_format_needs_timestamp(line) ==
    LET parts == SplitWhitespace(line)
    IN  IF Len(parts) < MinParts THEN None
        ELSE IF parse_timestamp(parts[1] \o <<" ">> \o parts[2]) = None THEN None
        ELSE <<LogEntry(parse_timestamp(parts[1] \o <<" ">> \o parts[2]),
                        LogLevelParse(parts[3]),
                        Join(SubSeq(parts, 4, Len(parts)), <<" ">>))>>

\* parse_simple_format: <<>> for None, <<entry>> for Some(entry).
parse_simple_format(line) ==
    LET parts == SplitWhitespace(line)
    IN  IF Len(parts) < MinParts THEN None
        ELSE LET timestamp_str == parts[1] \o <<" ">> \o parts[2]
                 message == Join(SubSeq(parts, 4, Len(parts)), <<" ">>)
             IN  <<LogEntry(parse_timestamp(timestamp_str),
                            LogLevelParse(parts[3]), message)>>

\* The default entry of parse_log_line.
default_entry(line) ==
    LogEntry(None, Unknown(<<"u", "n", "k", "n", "o", "w", "n">>), line)

\* A recognizer that tries the simple format first.
parse_log_line_simple_first(line) ==
    IF parse_simple_format(line) # None THEN parse_simple_format(line)
    ELSE IF parse_standard_format(line) # None THEN parse_standard_format(line)
    ELSE <<default_entry(line)>>

\* parse_log_line: always Some(entry).
parse_log_line(line) ==
    IF parse_standard_format(line) # None THEN parse_standard_format(line)
    ELSE IF parse_simple_format(line) # None THEN parse_simple_format(line)
    ELSE <<default_entry(line)>>

\* ------------------------------------------------------------------------
\* The inputs: timestamp candidates, level tokens, messages, lines, files
\* ------------------------------------------------------------------------

\* "2024-01-15 10:30:00"
TsA ==
    <<"2", "0", "2", "4", "-", "0", "1", "-", "1", "5", " ", "1", "0", ":",
      "3", "0", ":", "0", "0">>

\* "2024-01-15 10:31:00"
TsB ==
    <<"2", "0", "2", "4", "-", "0", "1", "-", "1", "5", " ", "1", "0", ":",
      "3", "1", ":", "0", "0">>

\* "2024-01-15 10:45:10.250"
TsFrac ==
    <<"2", "0", "2", "4", "-", "0", "1", "-", "1", "5", " ", "1", "0", ":",
      "4", "5", ":", "1", "0", ".", "2", "5", "0">>

\* "2024-01-14T23:59:59"
TsT ==
    <<"2", "0", "2", "4", "-", "0", "1", "-", "1", "4", "T", "2", "3", ":",
      "5", "9", ":", "5", "9">>

\* "2024-01-15T11:00:00Z"
TsZ ==
    <<"2", "0", "2", "4", "-", "0", "1", "-", "1", "5", "T", "1", "1", ":",
      "0", "0", ":", "0", "0", "Z">>

\* "2024-13-15 10:30:00"
TsMonth13 ==
    <<"2", "0", "2", "4", "-", "1", "3", "-", "1", "5", " ", "1", "0", ":",
      "3", "0", ":", "0", "0">>

\* "not atime"
TsWords ==
    <<"n", "o", "t", " ", "a", "t", "i", "m", "e">>

\* "INFO"
LvINFO ==
    <<"I", "N", "F", "O">>

\* "info"
LvInfoLower ==
    <<"i", "n", "f", "o">>

\* "Warn"
LvWarn ==
    <<"W", "a", "r", "n">>

\* "WARNING"
LvWARNING ==
    <<"W", "A", "R", "N", "I", "N", "G">>

\* "ERROR"
LvERROR ==
    <<"E", "R", "R", "O", "R">>

\* "err"
LvErr ==
    <<"e", "r", "r">>

\* "FATAL"
LvFATAL ==
    <<"F", "A", "T", "A", "L">>

\* "Critical"
LvCritical ==
    <<"C", "r", "i", "t", "i", "c", "a", "l">>

\* "DEBUG"
LvDEBUG ==
    <<"D", "E", "B", "U", "G">>

\* "TRACE"
LvTRACE ==
    <<"T", "R", "A", "C", "E">>

\* "service started"
MsgStarted ==
    <<"s", "e", "r", "v", "i", "c", "e", " ", "s", "t", "a", "r", "t", "e",
      "d">>

\* "Service Started"
MsgStartedCaps ==
    <<"S", "e", "r", "v", "i", "c", "e", " ", "S", "t", "a", "r", "t", "e",
      "d">>

\* "NullPointerException thrown"
MsgNpe ==
    <<"N", "u", "l", "l", "P", "o", "i", "n", "t", "e", "r", "E", "x", "c",
      "e", "p", "t", "i", "o", "n", " ", "t", "h", "r", "o", "w", "n">>

\* "NULLPTR NullPtr Err ÉÉ NullPtr"
MsgPatterns ==
    <<"N", "U", "L", "L", "P", "T", "R", " ", "N", "u", "l", "l", "P", "t",
      "r", " ", "E", "r", "r", " ", "É", "É", " ", "N", "u", "l", "l", "P",
      "t", "r">>

\* "x]y ]z"
MsgBrackets ==
    <<"x", "]", "y", " ", "]", "z">>

\* ""
MsgEmpty == <<>>

\* ""
LineEmpty == <<>>

\* "[2024-01-15 10:30:00] [INFO] service started"
LineA ==
    <<"[", "2", "0", "2", "4", "-", "0", "1", "-", "1", "5", " ", "1", "0",
      ":", "3", "0", ":", "0", "0", "]", " ", "[", "I", "N", "F", "O", "]",
      " ", "s", "e", "r", "v", "i", "c", "e", " ", "s", "t", "a", "r", "t",
      "e", "d">>

\* "2024-01-15 10:31:00 ERROR NullPointerException thrown"
LineB ==
    <<"2", "0", "2", "4", "-", "0", "1", "-", "1", "5", " ", "1", "0", ":",
      "3", "1", ":", "0", "0", " ", "E", "R", "R", "O", "R", " ", "N", "u",
      "l", "l", "P", "o", "i", "n", "t", "e", "r", "E", "x", "c", "e", "p",
      "t", "i", "o", "n", " ", "t", "h", "r", "o", "w", "n">>

\* "random unparseable garbage"
LineC ==
    <<"r", "a", "n", "d", "o", "m", " ", "u", "n", "p", "a", "r", "s", "e",
      "a", "b", "l", "e", " ", "g", "a", "r", "b", "a", "g", "e">>

\* "[only-one-bracket"
LineD ==
    <<"[", "o", "n", "l", "y", "-", "o", "n", "e", "-", "b", "r", "a", "c",
      "k", "e", "t">>

\* "[2024-01-15T11:00:00Z][FATAL] NULLPTR NullPtr Err"
LineFatal ==
    <<"[", "2", "0", "2", "4", "-", "0", "1", "-", "1", "5", "T", "1", "1",
      ":", "0", "0", ":", "0", "0", "Z", "]", "[", "F", "A", "T", "A", "L",
      "]", " ", "N", "U", "L", "L", "P", "T", "R", " ", "N", "u", "l", "l",
      "P", "t", "r", " ", "E", "r", "r">>

\* "2024-01-14 23:59:59 warn NULLPTR seen"
LineWarn ==
    <<"2", "0", "2", "4", "-", "0", "1", "-", "1", "4", " ", "2", "3", ":",
      "5", "9", ":", "5", "9", " ", "w", "a", "r", "n", " ", "N", "U", "L",
      "L", "P", "T", "R", " ", "s", "e", "e", "n">>

\* "2024-01-15 10:45:10.250 err NullPtr NullPtr ÉÉ"
LineErr ==
    <<"2", "0", "2", "4", "-", "0", "1", "-", "1", "5", " ", "1", "0", ":",
      "4", "5", ":", "1", "0", ".", "2", "5", "0", " ", "e", "r", "r", " ",
      "N", "u", "l", "l", "P", "t", "r", " ", "N", "u", "l", "l", "P", "t",
      "r", " ", "É", "É">>

\* "two words"
LineTwoWords ==
    <<"t", "w", "o", " ", "w", "o", "r", "d", "s">>

\* "[bad][info] service started"
LineNoTs ==
    <<"[", "b", "a", "d", "]", "[", "i", "n", "f", "o", "]", " ", "s", "e",
      "r", "v", "i", "c", "e", " ", "s", "t", "a", "r", "t", "e", "d">>

\* "[warn] disk almost full"
LineOneBracket ==
    <<"[", "w", "a", "r", "n", "]", " ", "d", "i", "s", "k", " ", "a", "l", "m", "o", "s", "t", " ", "f", "u", "l", "l">>

\* "  [2024-01-15 10:30:00][INFO] up"
LineIndented ==
    <<" ", " ", "[", "2", "0", "2", "4", "-", "0", "1", "-", "1", "5", " ", "1", "0", ":", "3", "0", ":", "0", "0", "]", "[", "I", "N", "F", "O", "]", " ", "u", "p">>

\* "a]]b]"
MsgManyBrackets == <<"a", "]", "]", "b", "]">>

\* "app.log"
PathLog ==
    <<"a", "p", "p", ".", "l", "o", "g">>

\* "old.log"
PathOther ==
    <<"o", "l", "d", ".", "l", "o", "g">>

\* "[<ts>] [<LEVEL>] <msg>": the standard format as parse_standard_format's
\* comment writes it.
StdForm(ts, lv, msg) == <<"[">> \o ts \o <<"]", " ", "[">> \o lv \o <<"]", " ">> \o msg

\* "[<ts>][<LEVEL>] <msg>": the same without the space between the fields.
TightForm(ts, lv, msg) == <<"[">> \o ts \o <<"]", "[">> \o lv \o <<"]", " ">> \o msg

\* "<ts> <LEVEL> <msg>": the simple format of parse_simple_format's comment.
SimpleForm(ts, lv, msg) ==
    ts \o <<" ">> \o lv \o (IF msg = <<>> THEN <<>> ELSE <<" ">> \o msg)

TsCandidates == {TsA, TsB, TsFrac, TsT, TsZ, TsMonth13, TsWords}

LevelNames == {LvINFO, LvInfoLower, LvWarn, LvWARNING, LvERROR, LvErr, LvFATAL,
               LvCritical, LvDEBUG}

LevelTokens == LevelNames \cup {LvTRACE}

Messages == {MsgStarted, MsgNpe, MsgPatterns, MsgBrackets, MsgEmpty}

StdLines == {StdForm(ts, lv, msg) : ts \in TsCandidates, lv \in LevelTokens, msg \in Messages}

TightLines == {TightForm(ts, lv, msg) : ts \in TsCandidates, lv \in LevelTokens, msg \in Messages}

SimpleLines == {SimpleForm(ts, lv, msg) : ts \in TsCandidates, lv \in LevelTokens, msg \in Messages}

\* "[2024-01-15 10:31:00][INFO] Service Started": the message of LineA in
\* another case.
LineCaps == TightForm(TsB, LvINFO, MsgStartedCaps)

\* "[2024-01-15 10:30:00][ERROR]a]]b]": a message with "]" in it and at
\* its end, right after the level.
LineManyBrackets == <<"[">> \o TsA \o <<"]", "[">> \o LvERROR \o <<"]">> \o MsgManyBrackets

\* Lines of no documented form, each the only line of its file.
OddLines == {LineOneBracket, LineIndented, LineD, LineTwoWords, LineWarn,
             LineManyBrackets, LineErr}

FormLines == StdLines \cup TightLines \cup SimpleLines \cup OddLines

\* The lines of the files of several lines.
CoreLines == {LineEmpty, LineA, LineB, LineC, LineFatal, LineNoTs}

\* The most lines of a file built from CoreLines.
MaxLines == 3

\* The most lines of a file when two analyses run.
MaxPairLines == 2

RECURSIVE Text(_)
\* The text of a file whose lines all end in "\n".
Text(ls) == IF ls = <<>> THEN <<>> ELSE Head(ls) \o <<"\n">> \o Text(Tail(ls))

LineSeqs(vocabulary, n) == UNION {[1..k -> vocabulary] : k \in 0..n}

\* Files whose last line has no "\n", and a file with "\r\n" line endings.
OddTexts == {LineB, LineA \o <<"\n">> \o LineTwoWords,
             LineA \o <<"\r", "\n">> \o LineC \o <<"\r", "\n">>,
             Text(<<LineA, LineCaps, LineCaps>>)}

Texts ==
    {Text(ls) : ls \in LineSeqs(CoreLines, MaxLines)}
        \cup {Text(<<l>>) : l \in FormLines} \cup OddTexts

PairLines == {LineC, LineFatal}

PairTexts == {Text(ls) : ls \in LineSeqs(PairLines, MaxPairLines)}

Paths == {PathLog, PathOther}

\* The file at `path`: present or not, readable or not, and its text.
Files(texts) ==
    {[path |-> p, exists |-> FALSE, readable |-> FALSE, content |-> <<>>] : p \in Paths}
        \cup {[path |-> PathLog, exists |-> TRUE, readable |-> FALSE, content |-> <<>>]}
        \cup {[path |-> PathLog, exists |-> TRUE, readable |-> TRUE, content |-> t] : t \in texts}

\* ------------------------------------------------------------------------
\* HashMap and Vec helpers
\* ------------------------------------------------------------------------

EmptyMap == [k \in {} |-> 0]

\* *map.entry(key).or_insert(0) += 1
Bump(map, key) ==
    IF key \in DOMAIN map
    THEN [map EXCEPT ![key] = @ + 1]
    ELSE [k \in DOMAIN map \cup {key} |-> IF k = key THEN 1 ELSE map[k]]

RECURSIVE BumpAll(_, _)
BumpAll(map, keys) ==
    IF keys = <<>> THEN map ELSE BumpAll(Bump(map, Head(keys)), Tail(keys))

RECURSIVE InsertTs(_, _)
InsertTs(sorted, ts) ==
    IF sorted = <<>> THEN <<ts>>
    ELSE IF TsLeq(Head(sorted), ts) THEN <<Head(sorted)>> \o InsertTs(Tail(sorted), ts)
    ELSE <<ts>> \o sorted

RECURSIVE InsertionSortTs(_)
InsertionSortTs(tss) ==
    IF tss = <<>> THEN <<>>
    ELSE InsertTs(InsertionSortTs(SubSeq(tss, 1, Len(tss) - 1)), tss[Len(tss)])

\* A time range pass that forgets timestamps.sort().
SortTsForgotten(tss) == tss

\* timestamps.sort()
SortTs(tss) == InsertionSortTs(tss)

RECURSIVE InsertByCount(_, _)
\* Insert after every pair whose count is not smaller: equal counts keep
\* their order.
InsertByCount(sorted, pair) ==
    IF sorted = <<>> THEN <<pair>>
    ELSE IF Head(sorted)[2] >= pair[2]
         THEN <<Head(sorted)>> \o InsertByCount(Tail(sorted), pair)
         ELSE <<pair>> \o sorted

\* A collect without the sort_by: the pairs in the order of iteration.
SortByCountForgotten(pairs) == pairs

RECURSIVE SortByCountDesc(_)
\* sorted_messages.sort_by(|a, b| b.1.cmp(&a.1)): stable, descending count.
SortByCountDesc(pairs) ==
    IF pairs = <<>> THEN <<>>
    ELSE InsertByCount(SortByCountDesc(SubSeq(pairs, 1, Len(pairs) - 1)), pairs[Len(pairs)])

\* message_counts.into_iter().collect(): the pairs of the map in the order
\* the HashMap iterates, which its RandomState decides: any order.
IterationOrders(map) ==
    LET n == Cardinality(DOMAIN map)
        orders == {o \in [1..n -> DOMAIN map] : \A i, j \in 1..n : o[i] = o[j] => i = j}
    IN  {[i \in 1..n |-> <<o[i], map[o[i]]>>] : o \in orders}

\* ------------------------------------------------------------------------
\* The passes of analyze_log_file over the entries
\* ------------------------------------------------------------------------

\* LogAnalysis::new()
NewAnalysis ==
    [total_entries |-> 0, level_distribution |-> EmptyMap,
     time_distribution |-> EmptyMap, error_patterns |-> EmptyMap,
     top_messages |-> <<>>, time_range |-> None]

SelectIdx(seq, Keep(_)) ==
    LET F[i \in 0..Len(seq)] ==
            IF i = 0 THEN <<>>
            ELSE IF Keep(seq[i]) THEN Append(F[i - 1], seq[i]) ELSE F[i - 1]
    IN  F[Len(seq)]

\* A level pass that leaves out the entries of an Unknown level.
EntryLevelsClosedOnly(es) ==
    LET Closed(e) == e.level.tag # "Unknown"
        kept == SelectIdx(es, Closed)
    IN  [i \in 1..Len(kept) |-> kept[i].level]

\* The levels of the entries, in order.
EntryLevels(es) == [i \in 1..Len(es) |-> es[i].level]

HasTimestamp(e) == e.timestamp # None

\* A time pass that counts an entry without a timestamp under the default
\* DateTime (entry.timestamp.unwrap_or_default()).
EntryTimestampsOrDefault(es) ==
    [i \in 1..Len(es) |->
        IF es[i].timestamp = None THEN <<1970, 1, 1, 0, 0, 0, 0>> ELSE es[i].timestamp]

\* The timestamps pushed by the time pass, in order.
EntryTimestamps(es) ==
    LET with == SelectIdx(es, HasTimestamp)
    IN  [i \in 1..Len(with) |-> with[i].timestamp]

\* The length threshold of an error pattern: word.len() > 3.
PatternMinLen == 3

\* word.len() > 3 && word.chars().any(|c| c.is_uppercase())
IsPattern(word) ==
    ByteLen(word) > PatternMinLen /\ \E i \in 1..Len(word) : IsUppercase(word[i])

\* entry.level.severity() >= LogLevel::Error.severity()
IsErrorEntry(e) == severity(e.level) >= severity(Error)

RECURSIVE PatternWords(_)
\* The words the error pass counts, in order.
PatternWords(es) ==
    IF es = <<>> THEN <<>>
    ELSE (IF IsErrorEntry(Head(es))
          THEN SelectIdx(SplitWhitespace(Head(es).message), IsPattern)
          ELSE <<>>) \o PatternWords(Tail(es))

\* A message pass that leaves out the events whose message is empty.
EntryMessagesNonEmpty(es) ==
    LET Said(e) == e.message # <<>>
        kept == SelectIdx(es, Said)
    IN  [i \in 1..Len(kept) |-> kept[i].message]

EntryMessages(es) == [i \in 1..Len(es) |-> es[i].message]

\* ------------------------------------------------------------------------
\* dirscan: FileInfo, DirectoryStats and the file system it scans
\* ------------------------------------------------------------------------

\* Path::extension of a file name: nothing when the name has no "." or its
\* only "." is its first character, and the part after the last "." otherwise.
Extension(name) ==
    LET dots == {i \in 1..Len(name) : name[i] = "."} \ {1}
    IN  IF dots = {} THEN None ELSE <<SubSeq(name, Max(dots) + 1, Len(name))>>

\* An entry of the file system: its path below the scanned root as the
\* sequence of its names, and its metadata.
Node(path, is_dir, size, modified, readable) ==
    [path |-> path, is_dir |-> is_dir, size |-> size, modified |-> modified,
     readable |-> readable]

\* The FileInfo that scan_directory_recursive builds for an entry.
FileInfoOf(node) ==
    [name |-> node.path[Len(node.path)], path |-> node.path, size |-> node.size,
     is_dir |-> node.is_dir, modified |-> node.modified,
     extension |-> Extension(node.path[Len(node.path)])]

\* fs::read_dir(dir): the entries of directory dir.
ReadDir(tree, dir) ==
    {n \in tree : Len(n.path) = Len(dir) + 1 /\ SubSeq(n.path, 1, Len(dir)) = dir}

\* DirectoryStats::new()
NewStats ==
    [total_files |-> 0, total_dirs |-> 0, total_size |-> 0,
     extension_stats |-> EmptyMap, largest_files |-> <<>>, oldest_files |-> <<>>]

\* largest_files and oldest_files hold at most 10 files.
LargestCap == 10

OldestCap == 10

RECURSIVE InsertBySize(_, _)
InsertBySize(sorted, f) ==
    IF sorted = <<>> THEN <<f>>
    ELSE IF Head(sorted).size >= f.size
         THEN <<Head(sorted)>> \o InsertBySize(Tail(sorted), f)
         ELSE <<f>> \o sorted

RECURSIVE SortBySizeDesc(_)
\* sort_by(|a, b| b.size.cmp(&a.size)): stable, the largest first.
SortBySizeDesc(fs) ==
    IF fs = <<>> THEN <<>>
    ELSE InsertBySize(SortBySizeDesc(SubSeq(fs, 1, Len(fs) - 1)), fs[Len(fs)])

RECURSIVE InsertByModified(_, _)
InsertByModified(sorted, f) ==
    IF sorted = <<>> THEN <<f>>
    ELSE IF Head(sorted).modified <= f.modified
         THEN <<Head(sorted)>> \o InsertByModified(Tail(sorted), f)
         ELSE <<f>> \o sorted

RECURSIVE SortByModifiedAsc(_)
\* sort_by(|a, b| a.modified.cmp(&b.modified)): stable, the oldest first.
SortByModifiedAsc(fs) ==
    IF fs = <<>> THEN <<>>
    ELSE InsertByModified(SortByModifiedAsc(SubSeq(fs, 1, Len(fs) - 1)), fs[Len(fs)])

\* A largest_files that keeps the first files it was given.
update_largest_files_first_come(largest, f) ==
    IF Len(largest) < LargestCap THEN SortBySizeDesc(Append(largest, f)) ELSE largest

\* update_largest_files; min_by_key gives the first of the smallest.
update_largest_files(largest, f) ==
    IF Len(largest) < LargestCap THEN SortBySizeDesc(Append(largest, f))
    ELSE LET smallest == Min({i \in 1..Len(largest) :
                                \A j \in 1..Len(largest) : largest[i].size <= largest[j].size})
         IN  IF f.size > largest[smallest].size
             THEN SortBySizeDesc([largest EXCEPT ![smallest] = f])
             ELSE largest

\* update_oldest_files; max_by_key gives the last of the newest.
update_oldest_files(oldest, f) ==
    IF Len(oldest) < OldestCap THEN SortByModifiedAsc(Append(oldest, f))
    ELSE LET newest == Max({i \in 1..Len(oldest) :
                              \A j \in 1..Len(oldest) : oldest[i].modified >= oldest[j].modified})
         IN  IF f.modified < oldest[newest].modified
             THEN SortByModifiedAsc([oldest EXCEPT ![newest] = f])
             ELSE oldest

\* DirectoryStats::add_file
add_file(stats, file_info) ==
    IF file_info.is_dir
    THEN [stats EXCEPT !.total_dirs = @ + 1]
    ELSE [stats EXCEPT
            !.total_files = @ + 1,
            !.total_size = @ + file_info.size,
            !.extension_stats =
                IF file_info.extension # None THEN Bump(@, file_info.extension[1]) ELSE @,
            !.largest_files = update_largest_files(@, file_info),
            !.oldest_files = update_oldest_files(@, file_info)]

\* usize::MAX, as far as the integers of the model checker go; it is only
\* compared with depths.
UsizeMax == 2147483647

\* A scan that does not look at its max_depth argument.
MaxDepthIgnored(max_depth) == UsizeMax

\* max_depth.unwrap_or(usize::MAX)
MaxDepthOf(max_depth) == IF max_depth = None THEN UsizeMax ELSE max_depth[1]

\* The names of the scanned entries.
NmLevel1 == <<"l", "e", "v", "e", "l", "1">>

NmLevel2 == <<"l", "e", "v", "e", "l", "2">>

NmLevel3 == <<"l", "e", "v", "e", "l", "3">>

NmSubdir == <<"s", "u", "b", "d", "i", "r">>

NmLocked == <<"l", "o", "c", "k", "e", "d">>

NmFileTxt == <<"f", "i", "l", "e", ".", "t", "x", "t">>

NmFile2Rs == <<"f", "i", "l", "e", "2", ".", "r", "s">>

NmReadme == <<"R", "E", "A", "D", "M", "E">>

DirLevel1 == Node(<<NmLevel1>>, TRUE, 64, 11, TRUE)

DirLevel2 == Node(<<NmLevel1, NmLevel2>>, TRUE, 64, 12, TRUE)

DirLevel3 == Node(<<NmLevel1, NmLevel2, NmLevel3>>, TRUE, 64, 13, TRUE)

DirSubdir == Node(<<NmSubdir>>, TRUE, 64, 14, TRUE)

\* A directory that read_dir cannot open.
DirLocked == Node(<<NmLocked>>, TRUE, 64, 15, FALSE)

FileRoot == Node(<<NmFileTxt>>, FALSE, 4, 5, TRUE)

FileLevel1 == Node(<<NmLevel1, NmFileTxt>>, FALSE, 5, 4, TRUE)

FileLevel2 == Node(<<NmLevel1, NmLevel2, NmReadme>>, FALSE, 6, 3, TRUE)

FileLevel3 == Node(<<NmLevel1, NmLevel2, NmLevel3, NmFileTxt>>, FALSE, 7, 2, TRUE)

FileSubdir == Node(<<NmSubdir, NmFile2Rs>>, FALSE, 12, 6, TRUE)

AllNodes ==
    {DirLevel1, DirLevel2, DirLevel3, DirSubdir, DirLocked,
     FileRoot, FileLevel1, FileLevel2, FileLevel3, FileSubdir}

\* The file systems below the root: every entry lies in a directory of the
\* tree.
Trees ==
    {t \in SUBSET AllNodes :
        \A n \in t : Len(n.path) > 1 =>
            \E d \in t : d.is_dir /\ d.path = SubSeq(n.path, 1, Len(n.path) - 1)}

\* The largest max_depth a scan is given.
MaxDepthArg == 3

\* The max_depth arguments: None and Some(0) .. Some(MaxDepthArg).
DepthArgs == {None} \cup {<<d>> : d \in 0..MaxDepthArg}

\* The FileInfo values that add_file is called with directly: files of
\* four sizes and a directory.
InfoSmall == FileInfoOf(Node(<<NmReadme>>, FALSE, 1, 9, TRUE))

InfoMedium == FileInfoOf(Node(<<NmFileTxt>>, FALSE, 2, 8, TRUE))

InfoLarge == FileInfoOf(Node(<<NmFile2Rs>>, FALSE, 3, 7, TRUE))

InfoHuge == FileInfoOf(Node(<<NmLevel1, NmFileTxt>>, FALSE, 4, 6, TRUE))

InfoDir == FileInfoOf(DirSubdir)

FileInfos == {InfoSmall, InfoMedium, InfoLarge, InfoHuge, InfoDir}

\* The most add_file calls on one DirectoryStats.
MaxAdds == 12

\* ------------------------------------------------------------------------
\* config: ConfigValue and ConfigManager
\* ------------------------------------------------------------------------

\* ConfigValue::String
ConfigString(s) == [tag |-> "String", text |-> s, number |-> 0, flag |-> FALSE, map |-> EmptyMap]

\* ConfigValue::Integer
ConfigInteger(i) == [tag |-> "Integer", text |-> <<>>, number |-> i, flag |-> FALSE, map |-> EmptyMap]

\* ConfigValue::Boolean
ConfigBoolean(b) == [tag |-> "Boolean", text |-> <<>>, number |-> 0, flag |-> b, map |-> EmptyMap]

\* ConfigValue::Map
ConfigMap(m) == [tag |-> "Map", text |-> <<>>, number |-> 0, flag |-> FALSE, map |-> m]

\* ConfigValue::as_map
as_map(value) == IF value.tag = "Map" THEN <<value.map>> ELSE None

\* HashMap::insert
Insert(map, key, value) ==
    [k \in DOMAIN map \cup {key} |-> IF k = key THEN value ELSE map[k]]

\* HashMap::remove
Remove(map, key) == [k \in DOMAIN map \ {key} |-> map[k]]

\* HashMap::get
MapGet(map, key) == IF key \in DOMAIN map THEN <<map[key]>> ELSE None

RECURSIVE GetNested(_, _, _)
\* The loop of ConfigManager::get over the parts of a key with a '.'.
GetNested(current, parts, i) ==
    IF i > Len(parts) THEN None
    ELSE IF MapGet(current, parts[i]) = None THEN None
    ELSE IF i = Len(parts) THEN MapGet(current, parts[i])
    ELSE IF as_map(current[parts[i]]) # None
         THEN GetNested(as_map(current[parts[i]])[1], parts, i + 1)
         ELSE None

\* ConfigManager::get
get(data, key) ==
    IF \E i \in 1..Len(key) : key[i] = "."
    THEN GetNested(data, Split(key, "."), 1)
    ELSE MapGet(data, key)

\* ConfigManager::set
set(data, key, value) == Insert(data, key, value)

\* ConfigManager::remove
remove(data, key) == Remove(data, key)

\* ConfigManager::has_key
has_key(data, key) == key \in DOMAIN data

\* str::ends_with(char)
EndsWith(s, c) == s # <<>> /\ s[Len(s)] = c

RECURSIVE ParseIniFrom(_, _, _, _)
\* The loop of parse_ini from line i on.
ParseIniFrom(ls, i, current_section, data) ==
    IF i > Len(ls) THEN data
    ELSE LET line == Trim(ls[i])
             eqs == {j \in 1..Len(line) : line[j] = "="}
         IN  IF line = <<>> \/ StartsWith(line, "#") \/ StartsWith(line, ";")
             THEN ParseIniFrom(ls, i + 1, current_section, data)
             ELSE IF StartsWith(line, "[") /\ EndsWith(line, "]")
             THEN ParseIniFrom(ls, i + 1, SubSeq(line, 2, Len(line) - 1), data)
             ELSE IF eqs # {}
             THEN LET pos == Min(eqs)
                      key == Trim(SubSeq(line, 1, pos - 1))
                      value == Trim(SubSeq(line, pos + 1, Len(line)))
                      full_key == IF current_section = <<>> THEN key
                                  ELSE current_section \o <<".">> \o key
                  IN  ParseIniFrom(ls, i + 1, current_section,
                                   Insert(data, full_key, ConfigString(value)))
             ELSE ParseIniFrom(ls, i + 1, current_section, data)

\* ConfigManager::parse_ini
parse_ini(content) == ParseIniFrom(Lines(content), 1, <<>>, EmptyMap)

\* The keys and values of the configuration.
KeyHost == <<"h", "o", "s", "t">>

KeyServer == <<"s", "e", "r", "v", "e", "r">>

KeyServerHost == KeyServer \o <<".">> \o KeyHost

ValLocal == <<"l", "o", "c", "a", "l">>

ConfigKeys == {KeyHost, KeyServer, KeyServerHost}

ConfigValues ==
    {ConfigString(ValLocal), ConfigInteger(8080), ConfigBoolean(TRUE),
     ConfigMap(Insert(EmptyMap, KeyHost, ConfigInteger(8080)))}

\* "app.ini" and "APP.CFG"
PathIni == <<"a", "p", "p", ".", "i", "n", "i">>

PathCfg == <<"A", "P", "P", ".", "C", "F", "G">>

\* "; settings\nhost = local\n\n[server]\nhost=local\nnot a pair\n"
IniSections ==
    <<";", " ", "s", "e", "t", "t", "i", "n", "g", "s", "\n">>
        \o KeyHost \o <<" ", "=", " ">> \o ValLocal \o <<"\n", "\n", "[">>
        \o KeyServer \o <<"]", "\n">> \o KeyHost \o <<"=">> \o ValLocal
        \o <<"\n", "n", "o", "t", " ", "a", " ", "p", "a", "i", "r", "\n">>

\* "# plain\nserver = local\n"
IniPlain ==
    <<"#", " ", "p", "l", "a", "i", "n", "\n">> \o KeyServer \o <<" ", "=", " ">>
        \o ValLocal \o <<"\n">>

\* The configuration files: an INI file with a section, one without, and
\* a path where no file is.
ConfigFiles ==
    {[path |-> PathIni, exists |-> TRUE, content |-> IniSections],
     [path |-> PathCfg, exists |-> TRUE, content |-> IniPlain],
     [path |-> PathIni, exists |-> FALSE, content |-> <<>>]}

\* ------------------------------------------------------------------------
\* textstats: TextStats and the texts it analyses
\* ------------------------------------------------------------------------

\* char::is_alphanumeric on the characters of the model's alphabet.
IsAlphanumeric(c) ==
    IsDigit(c) \/ IsUppercase(c) \/ \E i \in 1..Len(LowerChars) : LowerChars[i] = c

\* A cleaning that keeps every character of the word.
CleanWordKeepsAll(word) == word

\* word.chars().filter(|c| c.is_alphanumeric()).collect()
CleanWord(word) == SelectIdx(word, IsAlphanumeric)

RECURSIVE Gcd(_, _)
Gcd(n, d) == IF d = 0 THEN n ELSE Gcd(d, n % d)

\* n as f64 / d as f64 for d > 0: the quotient as a fraction in lowest terms.
Ratio(n, d) == <<n \div Gcd(n, d), d \div Gcd(n, d)>>

\* TextStats::default()
NewTextStats ==
    [char_count |-> 0, word_count |-> 0, line_count |-> 0, byte_count |-> 0,
     word_frequency |-> EmptyMap, avg_word_length |-> Ratio(0, 1)]

\* The words of the analysed texts.
WdHello == <<"H", "e", "l", "l", "o">>

WdHelloLower == <<"h", "e", "l", "l", "o">>

WdWorldBang == <<"w", "o", "r", "l", "d", "!">>

WdDashes == <<"-", "-">>

Words == {WdHello, WdHelloLower, WdWorldBang, WdDashes}

\* "Hello world! This is a test."
TextSentence ==
    <<"H", "e", "l", "l", "o", " ", "w", "o", "r", "l", "d", "!", " ", "T",
      "h", "i", "s", " ", "i", "s", " ", "a", " ", "t", "e", "s", "t", ".">>

\* "Hello world! This is a test file.\nIt has multiple lines.\n"
TextTwoLines ==
    <<"H", "e", "l", "l", "o", " ", "w", "o", "r", "l", "d", "!", " ", "T",
      "h", "i", "s", " ", "i", "s", " ", "a", " ", "t", "e", "s", "t", " ",
      "f", "i", "l", "e", ".", "\n", "I", "t", " ", "h", "a", "s", " ", "m",
      "u", "l", "t", "i", "p", "l", "e", " ", "l", "i", "n", "e", "s", ".",
      "\n">>

\* " \t\n"
TextBlank == <<" ", "\t", "\n">>

\* "É1 é1 --"
TextAccents == <<"É", "1", " ", "é", "1", " ", "-", "-">>

\* The most words of a text built from Words.
MaxWords == 2

\* The texts analyze_text is called with.
TextInputs ==
    {Join(ws, <<" ">>) : ws \in LineSeqs(Words, MaxWords)}
        \cup {TextSentence, TextTwoLines, TextBlank, TextAccents}

\* One call of analyze_text, or two calls on the same TextStats.
CallPlans == {<<t>> : t \in TextInputs} \cup {<<t, u>> : t, u \in TextInputs}

\* No analyze_text call is running.
IdleFrame ==
    [pc |-> "idle", text |-> <<>>, words |-> <<>>, word_count |-> 0, total_length |-> 0]

\* ------------------------------------------------------------------------
\* analyze_log_file as a state machine
\* ------------------------------------------------------------------------

VARIABLES
    file,            \* file[a]: the file analysis a is given
    pc,              \* pc[a]: the position of analysis a in analyze_log_file
    lines,           \* lines[a]: content.lines().collect()
    next_line,       \* next_line[a]: the line the parse loop is at
    entries,         \* entries[a]
    timestamps,      \* timestamps[a]
    message_counts,  \* message_counts[a]
    analysis,        \* analysis[a]: the LogAnalysis under construction
    result,          \* result[a]: what the call returned
    fs_tree,         \* the entries below the directory that scan_directory is given
    scan_args,       \* the arguments of scan_directory: the root and max_depth
    scan_pc,         \* the position of scan_directory
    scan_frames,     \* the calls of scan_directory_recursive that have not returned
    dir_stats,       \* stats: the DirectoryStats under construction
    scan_result,     \* what scan_directory returned
    text_plan,       \* the texts that analyze_text will be called with
    text_frame,      \* the locals of the running analyze_text call
    text_stats,      \* the TextStats
    analysed,        \* the texts that analyze_text has been called with
    config_data,     \* ConfigManager::data
    config_call,     \* the last call on the ConfigManager
    held_stats,      \* a DirectoryStats that add_file is called on directly
    added            \* how often each FileInfo was given to add_file on held_stats

logVars == <<file, pc, lines, next_line, entries, timestamps, message_counts,
             analysis, result>>

scanVars == <<fs_tree, scan_args, scan_pc, scan_frames, dir_stats, scan_result>>

textVars == <<text_plan, text_frame, text_stats, analysed>>

configVars == <<config_data, config_call>>

statsVars == <<held_stats, added>>

\* What analyze_log_file has no access to.
nonLogVars == <<scanVars, textVars, configVars, statsVars>>

vars == <<logVars, scanVars, textVars, configVars, statsVars>>

Pending == [kind |-> "Pending", value |-> NewAnalysis, error |-> <<>>]

Ok(value) == [kind |-> "Ok", value |-> value, error |-> <<>>]

Err(name, detail) == [kind |-> "Err", value |-> NewAnalysis, error |-> <<name, detail>>]

InitWith(runs, files) ==
    /\ file \in [runs -> files]
    /\ pc = [a \in runs |-> "start"]
    /\ lines = [a \in runs |-> <<>>]
    /\ next_line = [a \in runs |-> 1]
    /\ entries = [a \in runs |-> <<>>]
    /\ timestamps = [a \in runs |-> <<>>]
    /\ message_counts = [a \in runs |-> EmptyMap]
    /\ analysis = [a \in runs |-> NewAnalysis]
    /\ result = [a \in runs |-> Pending]

\* "test_dir"
PathDir == <<"t", "e", "s", "t", "_", "d", "i", "r">>

\* scan_directory has been given root (a directory, a file or nothing at
\* dir_path) and max_depth.
ScanArgs(root, max_depth) == [dir_path |-> PathDir, root |-> root, max_depth |-> max_depth]

\* The state of scan_directory before it runs (pc "start") or when it is
\* not part of the run (pc "idle").
ScanInitWith(position, trees, args) ==
    /\ fs_tree \in trees
    /\ scan_args \in args
    /\ scan_pc = position
    /\ scan_frames = <<>>
    /\ dir_stats = NewStats
    /\ scan_result = Pending

ScanIdle == ScanInitWith("idle", {{}}, {ScanArgs("missing", None)})

\* A fresh TextStats and the calls to come.
TextInitWith(plans) ==
    /\ text_plan \in plans
    /\ text_frame = IdleFrame
    /\ text_stats = NewTextStats
    /\ analysed = <<>>

TextIdle == TextInitWith({<<>>})

\* The last call on the ConfigManager.
ConfigCall(op, key, value) == [op |-> op, key |-> key, value |-> value]

\* ConfigManager::new()
ConfigNew ==
    /\ config_data = EmptyMap
    /\ config_call = ConfigCall("new", <<>>, ConfigString(<<>>))

\* DirectoryStats::new(), nothing added.
StatsNew ==
    /\ held_stats = NewStats
    /\ added = [f \in FileInfos |-> 0]

Init == InitWith({1}, Files(Texts)) /\ ScanIdle /\ TextIdle /\ ConfigNew /\ StatsNew

InitPair == InitWith({1, 2}, Files(PairTexts)) /\ ScanIdle /\ TextIdle /\ ConfigNew /\ StatsNew

\* scan_directory on a directory with every max_depth, on a file and on a
\* path that does not exist.
InitScan ==
    /\ InitWith({}, Files(Texts))
    /\ \/ ScanInitWith("start", Trees, {ScanArgs("dir", d) : d \in DepthArgs})
       \/ ScanInitWith("start", {{}}, {ScanArgs("file", None), ScanArgs("missing", None)})
    /\ TextIdle
    /\ ConfigNew
    /\ StatsNew

\* analyze_text once or twice on a fresh TextStats.
InitText ==
    InitWith({}, Files(Texts)) /\ ScanIdle /\ TextInitWith(CallPlans) /\ ConfigNew /\ StatsNew

\* A new ConfigManager.
InitConfig == InitWith({}, Files(Texts)) /\ ScanIdle /\ TextIdle /\ ConfigNew /\ StatsNew

\* A new DirectoryStats.
InitStats == InitWith({}, Files(Texts)) /\ ScanIdle /\ TextIdle /\ ConfigNew /\ StatsNew

\* A start without the path.exists() test: the read meets the missing file.
CheckExistsSkipped(a) ==
    /\ pc[a] = "start"
    /\ pc' = [pc EXCEPT ![a] = "read"]
    /\ UNCHANGED <<file, lines, next_line, entries, timestamps, message_counts, analysis,
                   result>>
    /\ UNCHANGED nonLogVars

\* if !path.exists() { return Err(FileNotFound(file_path)) }
CheckExists(a) ==
    /\ pc[a] = "start"
    /\ IF file[a].exists
       THEN /\ pc' = [pc EXCEPT ![a] = "read"]
            /\ UNCHANGED result
       ELSE /\ pc' = [pc EXCEPT ![a] = "done"]
            /\ result' = [result EXCEPT ![a] = Err("FileNotFound", file[a].path)]
    /\ UNCHANGED <<file, lines, next_line, entries, timestamps, message_counts, analysis>>
    /\ UNCHANGED nonLogVars

\* let content = fs::read_to_string(path)?; let lines = content.lines().collect();
ReadFile(a) ==
    /\ pc[a] = "read"
    /\ IF file[a].readable
       THEN /\ lines' = [lines EXCEPT ![a] = Lines(file[a].content)]
            /\ pc' = [pc EXCEPT ![a] = "parse"]
            /\ UNCHANGED result
       ELSE /\ pc' = [pc EXCEPT ![a] = "done"]
            /\ result' = [result EXCEPT ![a] = Err("IoError", file[a].path)]
            /\ UNCHANGED lines
    /\ UNCHANGED <<file, next_line, entries, timestamps, message_counts, analysis>>
    /\ UNCHANGED nonLogVars

\* A parse loop that gives up at a line whose level is not a severity
\* (parse_log_line(line)? with an error for an Unknown level).
ParseLineStrict(a) ==
    /\ pc[a] = "parse"
    /\ next_line[a] <= Len(lines[a])
    /\ LET parsed == parse_log_line(lines[a][next_line[a]])
       IN  IF parsed[1].level.tag = "Unknown"
           THEN /\ result' = [result EXCEPT ![a] = Err("ParseError", file[a].path)]
                /\ pc' = [pc EXCEPT ![a] = "done"]
                /\ UNCHANGED <<entries, next_line>>
           ELSE /\ entries' = [entries EXCEPT ![a] = Append(@, parsed[1])]
                /\ next_line' = [next_line EXCEPT ![a] = @ + 1]
                /\ UNCHANGED <<pc, result>>
    /\ UNCHANGED <<file, lines, timestamps, message_counts, analysis>>
    /\ UNCHANGED nonLogVars

\* One turn of: for line in lines.iter() { if let Some(entry) = parse_log_line(line) ... }
ParseLine(a) ==
    /\ pc[a] = "parse"
    /\ next_line[a] <= Len(lines[a])
    /\ LET parsed == parse_log_line(lines[a][next_line[a]])
       IN  entries' = [entries EXCEPT ![a] = IF parsed # None THEN Append(@, parsed[1]) ELSE @]
    /\ next_line' = [next_line EXCEPT ![a] = @ + 1]
    /\ UNCHANGED <<file, pc, lines, timestamps, message_counts, analysis, result>>
    /\ UNCHANGED nonLogVars

\* analysis.total_entries = entries.len(); if entries.is_empty() { return Ok(analysis) }
CountEntries(a) ==
    /\ pc[a] = "parse"
    /\ next_line[a] > Len(lines[a])
    /\ analysis' = [analysis EXCEPT ![a].total_entries = Len(entries[a])]
    /\ IF entries[a] = <<>>
       THEN /\ pc' = [pc EXCEPT ![a] = "done"]
            /\ result' = [result EXCEPT ![a] = Ok(analysis'[a])]
       ELSE /\ pc' = [pc EXCEPT ![a] = "levels"]
            /\ UNCHANGED result
    /\ UNCHANGED <<file, lines, next_line, entries, timestamps, message_counts>>
    /\ UNCHANGED nonLogVars

\* The level pass.
LevelPass(a) ==
    /\ pc[a] = "levels"
    /\ analysis' = [analysis EXCEPT
                      ![a].level_distribution = BumpAll(@, EntryLevels(entries[a]))]
    /\ pc' = [pc EXCEPT ![a] = "times"]
    /\ UNCHANGED <<file, lines, next_line, entries, timestamps, message_counts, result>>
    /\ UNCHANGED nonLogVars

\* The time pass: timestamps and the hour keys.
TimePass(a) ==
    /\ pc[a] = "times"
    /\ LET tss == EntryTimestamps(entries[a])
       IN  /\ timestamps' = [timestamps EXCEPT ![a] = tss]
           /\ analysis' = [analysis EXCEPT
                             ![a].time_distribution =
                                 BumpAll(@, [i \in 1..Len(tss) |-> hour_key(tss[i])])]
    /\ pc' = [pc EXCEPT ![a] = "range"]
    /\ UNCHANGED <<file, lines, next_line, entries, message_counts, result>>
    /\ UNCHANGED nonLogVars

\* if !timestamps.is_empty() { timestamps.sort(); time_range = Some((first, last)) }
TimeRange(a) ==
    /\ pc[a] = "range"
    /\ IF timestamps[a] # <<>>
       THEN LET sorted == SortTs(timestamps[a])
            IN  /\ timestamps' = [timestamps EXCEPT ![a] = sorted]
                /\ analysis' = [analysis EXCEPT
                                  ![a].time_range = <<sorted[1], sorted[Len(sorted)]>>]
       ELSE UNCHANGED <<timestamps, analysis>>
    /\ pc' = [pc EXCEPT ![a] = "patterns"]
    /\ UNCHANGED <<file, lines, next_line, entries, message_counts, result>>
    /\ UNCHANGED nonLogVars

\* The error pattern pass.
PatternPass(a) ==
    /\ pc[a] = "patterns"
    /\ analysis' = [analysis EXCEPT
                      ![a].error_patterns = BumpAll(@, PatternWords(entries[a]))]
    /\ pc' = [pc EXCEPT ![a] = "messages"]
    /\ UNCHANGED <<file, lines, next_line, entries, timestamps, message_counts, result>>
    /\ UNCHANGED nonLogVars

\* A message pass over one map that all analyses share.
MessagePassShared(a) ==
    /\ pc[a] = "messages"
    /\ message_counts' = [b \in DOMAIN message_counts |->
                             BumpAll(message_counts[b], EntryMessages(entries[a]))]
    /\ pc' = [pc EXCEPT ![a] = "sort"]
    /\ UNCHANGED <<file, lines, next_line, entries, timestamps, analysis, result>>
    /\ UNCHANGED nonLogVars

\* The message pass: message_counts.
MessagePass(a) ==
    /\ pc[a] = "messages"
    /\ message_counts' = [message_counts EXCEPT
                            ![a] = BumpAll(@, EntryMessages(entries[a]))]
    /\ pc' = [pc EXCEPT ![a] = "sort"]
    /\ UNCHANGED <<file, lines, next_line, entries, timestamps, analysis, result>>
    /\ UNCHANGED nonLogVars

\* collect, sort_by, analysis.top_messages = sorted_messages; Ok(analysis)
SortMessages(a) ==
    /\ pc[a] = "sort"
    /\ \E sorted_messages \in IterationOrders(message_counts[a]) :
          analysis' = [analysis EXCEPT ![a].top_messages = SortByCountDesc(sorted_messages)]
    /\ pc' = [pc EXCEPT ![a] = "done"]
    /\ result' = [result EXCEPT ![a] = Ok(analysis'[a])]
    /\ UNCHANGED <<file, lines, next_line, entries, timestamps, message_counts>>
    /\ UNCHANGED nonLogVars

\* One step of analysis a.
Step(a) ==
    \/ CheckExists(a)
    \/ ReadFile(a)
    \/ ParseLine(a)
    \/ CountEntries(a)
    \/ LevelPass(a)
    \/ TimePass(a)
    \/ TimeRange(a)
    \/ PatternPass(a)
    \/ MessagePass(a)
    \/ SortMessages(a)

\* One analysis.
Next == Step(1)

\* Two analyses, their steps interleaved in any order.
NextPair == \E a \in {1, 2} : Step(a)

Spec == Init /\ [][Next]_vars

SpecPair == InitPair /\ [][NextPair]_vars

\* ------------------------------------------------------------------------
\* scan_directory as a state machine
\* ------------------------------------------------------------------------

\* The directory at path dir can be opened by fs::read_dir; the root can.
DirReadable(dir) == \A n \in fs_tree : n.path = dir => n.readable

\* The call scan_directory_recursive(dir, stats, current_depth, max_depth)
\* up to its loop, below the calls `callers`: it returns at once when it is
\* too deep, fails when read_dir fails, and otherwise starts on the entries.
EnterDirectory(dir, current_depth, callers) ==
    IF current_depth > MaxDepthOf(scan_args.max_depth)
    THEN /\ scan_frames' = callers
         /\ scan_pc' = "scan"
         /\ UNCHANGED scan_result
    ELSE IF ~DirReadable(dir)
    THEN /\ scan_frames' = <<>>
         /\ scan_pc' = "done"
         /\ scan_result' = Err("IoError", dir)
    ELSE /\ scan_frames' = Append(callers, [dir |-> dir, depth |-> current_depth,
                                            todo |-> ReadDir(fs_tree, dir)])
         /\ scan_pc' = "scan"
         /\ UNCHANGED scan_result

\* scan_directory up to the loop of its call of scan_directory_recursive.
ScanDirectory ==
    /\ scan_pc = "start"
    /\ IF scan_args.root = "missing"
       THEN /\ scan_pc' = "done"
            /\ scan_result' = Err("DirectoryNotFound", scan_args.dir_path)
            /\ UNCHANGED <<scan_frames, dir_stats>>
       ELSE IF scan_args.root # "dir"
       THEN /\ scan_pc' = "done"
            /\ scan_result' = Err("NotADirectory", scan_args.dir_path)
            /\ UNCHANGED <<scan_frames, dir_stats>>
       ELSE /\ dir_stats' = NewStats
            /\ EnterDirectory(<<>>, 0, <<>>)
    /\ UNCHANGED <<fs_tree, scan_args>>
    /\ UNCHANGED <<logVars, textVars, configVars, statsVars>>

\* One turn of the loop of the innermost call: the entry, in the order
\* read_dir happens to give, is added, and a directory above the depth limit
\* is scanned.
ScanEntry ==
    /\ scan_pc = "scan"
    /\ scan_frames # <<>>
    /\ LET top == scan_frames[Len(scan_frames)]
       IN  \E entry \in top.todo :
              LET rest == [scan_frames EXCEPT ![Len(scan_frames)].todo = @ \ {entry}]
              IN  /\ dir_stats' = add_file(dir_stats, FileInfoOf(entry))
                  /\ IF entry.is_dir /\ top.depth < MaxDepthOf(scan_args.max_depth)
                     THEN EnterDirectory(entry.path, top.depth + 1, rest)
                     ELSE /\ scan_frames' = rest
                          /\ UNCHANGED <<scan_pc, scan_result>>
    /\ UNCHANGED <<fs_tree, scan_args>>
    /\ UNCHANGED <<logVars, textVars, configVars, statsVars>>

\* The innermost call has no entry left: Ok(()).
ScanReturn ==
    /\ scan_pc = "scan"
    /\ scan_frames # <<>>
    /\ scan_frames[Len(scan_frames)].todo = {}
    /\ scan_frames' = SubSeq(scan_frames, 1, Len(scan_frames) - 1)
    /\ UNCHANGED <<fs_tree, scan_args, scan_pc, dir_stats, scan_result>>
    /\ UNCHANGED <<logVars, textVars, configVars, statsVars>>

\* Ok(stats)
ScanFinish ==
    /\ scan_pc = "scan"
    /\ scan_frames = <<>>
    /\ scan_pc' = "done"
    /\ scan_result' = Ok(dir_stats)
    /\ UNCHANGED <<fs_tree, scan_args, scan_frames, dir_stats>>
    /\ UNCHANGED <<logVars, textVars, configVars, statsVars>>

NextScan == ScanDirectory \/ ScanEntry \/ ScanReturn \/ ScanFinish

SpecScan == InitScan /\ [][NextScan]_vars

\* ------------------------------------------------------------------------
\* TextStats::analyze_text as a state machine
\* ------------------------------------------------------------------------

\* analyze_text(text) up to its loop.
AnalyzeTextBegin ==
    /\ text_frame.pc = "idle"
    /\ text_plan # <<>>
    /\ LET text == Head(text_plan)
       IN  /\ text_stats' = [text_stats EXCEPT !.byte_count = ByteLen(text),
                                               !.char_count = Len(text),
                                               !.line_count = Len(Lines(text))]
           /\ text_frame' = [pc |-> "loop", text |-> text, words |-> SplitWhitespace(text),
                             word_count |-> 0, total_length |-> 0]
    /\ text_plan' = Tail(text_plan)
    /\ UNCHANGED analysed
    /\ UNCHANGED <<logVars, scanVars, configVars, statsVars>>

\* One turn of: for word in text.split_whitespace() { ... }
AnalyzeTextWord ==
    /\ text_frame.pc = "loop"
    /\ text_frame.words # <<>>
    /\ LET word == Head(text_frame.words)
           clean_word == CleanWord(word)
       IN  /\ text_frame' = [text_frame EXCEPT
                               !.words = Tail(@),
                               !.word_count = IF word # <<>> THEN @ + 1 ELSE @,
                               !.total_length =
                                   IF word # <<>> /\ clean_word # <<>>
                                   THEN @ + ByteLen(clean_word) ELSE @]
           /\ text_stats' = [text_stats EXCEPT
                               !.word_frequency =
                                   IF word # <<>> /\ clean_word # <<>>
                                   THEN Bump(@, ToLowercase(clean_word)) ELSE @]
    /\ UNCHANGED <<text_plan, analysed>>
    /\ UNCHANGED <<logVars, scanVars, configVars, statsVars>>

\* After the loop: self.word_count and the average word length.
AnalyzeTextEnd ==
    /\ text_frame.pc = "loop"
    /\ text_frame.words = <<>>
    /\ text_stats' = [text_stats EXCEPT
                        !.word_count = text_frame.word_count,
                        !.avg_word_length =
                            IF text_frame.word_count > 0
                            THEN Ratio(text_frame.total_length, text_frame.word_count)
                            ELSE @]
    /\ text_frame' = IdleFrame
    /\ analysed' = Append(analysed, text_frame.text)
    /\ UNCHANGED text_plan
    /\ UNCHANGED <<logVars, scanVars, configVars, statsVars>>

NextText == AnalyzeTextBegin \/ AnalyzeTextWord \/ AnalyzeTextEnd

SpecText == InitText /\ [][NextText]_vars

\* ------------------------------------------------------------------------
\* ConfigManager as a state machine
\* ------------------------------------------------------------------------

\* config.set(key, value)
ConfigSet ==
    /\ \E key \in ConfigKeys, value \in ConfigValues :
          /\ config_data' = set(config_data, key, value)
          /\ config_call' = ConfigCall("set", key, value)
    /\ UNCHANGED <<logVars, scanVars, textVars, statsVars>>

\* config.remove(key)
ConfigRemove ==
    /\ \E key \in ConfigKeys :
          /\ config_data' = remove(config_data, key)
          /\ config_call' = ConfigCall("remove", key, ConfigString(<<>>))
    /\ UNCHANGED <<logVars, scanVars, textVars, statsVars>>

\* config = ConfigManager::load_from_file(path) for a path whose extension
\* is ini or cfg; an Err leaves the ConfigManager at hand as it is.
ConfigLoadFromFile ==
    /\ \E f \in ConfigFiles :
          /\ Extension(f.path) # None
          /\ ToLowercase(Extension(f.path)[1]) \in {<<"i", "n", "i">>, <<"c", "f", "g">>}
          /\ IF ~f.exists
             THEN /\ config_call' = ConfigCall("load_err", f.path, ConfigString(<<>>))
                  /\ UNCHANGED config_data
             ELSE /\ config_data' = parse_ini(f.content)
                  /\ config_call' = ConfigCall("load", f.path, ConfigString(<<>>))
    /\ UNCHANGED <<logVars, scanVars, textVars, statsVars>>

NextConfig == ConfigSet \/ ConfigRemove \/ ConfigLoadFromFile

SpecConfig == InitConfig /\ [][NextConfig]_vars

\* ------------------------------------------------------------------------
\* DirectoryStats::add_file called directly
\* ------------------------------------------------------------------------

\* How many add_file calls held_stats has had.
Adds == LET S[fs \in SUBSET FileInfos] ==
                IF fs = {} THEN 0
                ELSE LET f == CHOOSE x \in fs : TRUE IN added[f] + S[fs \ {f}]
        IN  S[FileInfos]

\* held_stats.add_file(file_info)
AddFile ==
    /\ Adds < MaxAdds
    /\ \E file_info \in FileInfos :
          /\ held_stats' = add_file(held_stats, file_info)
          /\ added' = [added EXCEPT ![file_info] = @ + 1]
    /\ UNCHANGED <<logVars, scanVars, textVars, configVars>>

NextStats == AddFile

SpecStats == InitStats /\ [][NextStats]_vars

\* ------------------------------------------------------------------------
\* Properties
\* ------------------------------------------------------------------------

Returned(a) == result[a].value

Succeeded(a) == result[a].kind = "Ok"

\* The timestamp candidates that one of the four formats parses.
ValidTs == {TsA, TsB, TsFrac, TsT, TsZ}

RECURSIVE SumMap(_)
\* The sum of the counts of a map.
SumMap(map) ==
    IF DOMAIN map = {} THEN 0
    ELSE LET k == CHOOSE x \in DOMAIN map : TRUE
         IN  map[k] + SumMap([x \in DOMAIN map \ {k} |-> map[x]])

\* The positions of a sequence that hold x.
Occurrences(seq, x) == {i \in 1..Len(seq) : seq[i] = x}

\* C1: a line "[<ts>] [<LEVEL>] <msg>" with a supported timestamp and a
\* recognised severity name gives exactly one event with timestamp <ts>, the
\* closed severity of <LEVEL> and message <msg>, and analysing it gives
\* level_distribution = {that severity: 1}.
C1_StandardFormGivesSeverity ==
    Succeeded(1) =>
        \A ts \in ValidTs, lv \in LevelNames, msg \in Messages :
            file[1].content = Text(<<StdForm(ts, lv, msg)>>) =>
                /\ LogLevelParse(lv).tag # "Unknown"
                /\ entries[1] = <<LogEntry(parse_timestamp(ts), LogLevelParse(lv), msg)>>
                /\ DOMAIN Returned(1).level_distribution = {LogLevelParse(lv)}
                /\ Returned(1).level_distribution[LogLevelParse(lv)] = 1

\* Lines of plain words: no timestamp, no level name, no bracket.
PlainLines == {LineC, LineTwoWords}

\* C2: a line of plain words becomes one Unknown event whose message is the
\* whole line; when it occurs n times, top_messages holds (line, n), and it
\* is the only entry when the file holds nothing else.
C2_PlainLineIsItsOwnMessage ==
    Succeeded(1) =>
        \A l \in PlainLines :
            LET at == Occurrences(lines[1], l)
            IN  at # {} =>
                  /\ Len(entries[1]) = Len(lines[1])
                  /\ \A i \in at : /\ entries[1][i].level.tag = "Unknown"
                                   /\ entries[1][i].message = l
                  /\ \E j \in 1..Len(Returned(1).top_messages) :
                        Returned(1).top_messages[j] = <<l, Cardinality(at)>>
                  /\ (Cardinality(at) = Len(lines[1]) =>
                        Returned(1).top_messages = <<<<l, Cardinality(at)>>>>)

\* C3: two analyses of the same text return the same LogAnalysis, the order
\* of top_messages included.
C3_SameTextSameAnalysis ==
    (Succeeded(1) /\ Succeeded(2) /\ file[1].content = file[2].content)
        => Returned(1) = Returned(2)

\* The lines of the file that are not empty.
NonEmptyLines(a) == {i \in 1..Len(Lines(file[a].content)) : Lines(file[a].content)[i] # <<>>}

\* C4: total_entries is the number of non-empty lines, and a file of empty
\* lines only gives the zero-valued analysis.
C4_EmptyLinesGiveNoEvent ==
    Succeeded(1) =>
        /\ Returned(1).total_entries = Cardinality(NonEmptyLines(1))
        /\ (NonEmptyLines(1) = {} => Returned(1) = NewAnalysis)

\* C5: the counts of level_distribution sum to total_entries.
C5_LevelCountsSumToTotal ==
    Succeeded(1) => SumMap(Returned(1).level_distribution) = Returned(1).total_entries

\* C5's case: three events, two of them of one level, one of another.
C5_Witness ==
    /\ Succeeded(1)
    /\ Returned(1).total_entries = 3
    /\ Cardinality(DOMAIN Returned(1).level_distribution) = 2

\* The events that carry a timestamp.
Timestamped(a) == {i \in 1..Len(entries[a]) : entries[a][i].timestamp # None}

\* C6: the counts of time_distribution sum to at most total_entries, and to
\* total_entries exactly when every event has a timestamp.
C6_TimeCountsAtMostTotal ==
    Succeeded(1) =>
        /\ SumMap(Returned(1).time_distribution) <= Returned(1).total_entries
        /\ (SumMap(Returned(1).time_distribution) = Returned(1).total_entries
              <=> Timestamped(1) = 1..Len(entries[1]))

\* C6's case: some events with a timestamp and some without.
C6_Witness ==
    /\ Succeeded(1)
    /\ SumMap(Returned(1).time_distribution) = 2
    /\ Returned(1).total_entries = 3

\* C7: time_range is present exactly when some event has a timestamp; then it
\* is (earliest, latest) of the events' timestamps, whatever the order of
\* the lines.
C7_TimeRangeIsEarliestLatest ==
    Succeeded(1) =>
        LET range == Returned(1).time_range
        IN  /\ range # None <=> Timestamped(1) # {}
            /\ range # None =>
                 /\ \E i \in Timestamped(1) : entries[1][i].timestamp = range[1]
                 /\ \E i \in Timestamped(1) : entries[1][i].timestamp = range[2]
                 /\ TsLeq(range[1], range[2])
                 /\ \A i \in Timestamped(1) :
                       /\ TsLeq(range[1], entries[1][i].timestamp)
                       /\ TsLeq(entries[1][i].timestamp, range[2])

\* C7's case: the lines are not in the order of their timestamps.
C7_Witness ==
    /\ Succeeded(1)
    /\ Returned(1).time_range # None
    /\ Returned(1).time_range[1] # Returned(1).time_range[2]
    /\ \E i, j \in Timestamped(1) :
          i < j /\ ~TsLeq(entries[1][i].timestamp, entries[1][j].timestamp)

\* The lines the parse loop has passed, and the event of each.
Parsed(a) == 1..(next_line[a] - 1)

\* words is toks from position k on, joined by single spaces.
JoinedBySpaces(message, toks, k) ==
    /\ SplitWhitespace(message) = SubSeq(toks, k, Len(toks))
    /\ \A i \in 1..Len(message) : IsWhitespace(message[i]) => message[i] = " "
    /\ IF Len(toks) < k THEN message = <<>>
       ELSE Len(message) = Len(Join(SubSeq(toks, k, Len(toks)), <<>>)) + (Len(toks) - k)

\* C8: for a line that does not start with "[" and has 3 tokens or more, the
\* whitespace matcher gives timestamp = parse of "token0 token1", level = the
\* class of token 2 and message = tokens 3.. joined by single spaces; the
\* line "<date> <time> ERROR <Tok> <rest>" gives Error and "<Tok> <rest>".
C8_WhitespaceMatcher ==
    \A i \in Parsed(1) :
        LET line == lines[1][i]
            toks == SplitWhitespace(line)
        IN  (~StartsWith(line, "[") /\ Len(toks) >= 3) =>
              /\ Len(parse_simple_format(line)) = 1
              /\ LET e == parse_simple_format(line)[1]
                 IN  /\ e.timestamp = parse_timestamp(toks[1] \o <<" ">> \o toks[2])
                     /\ e.level = LogLevelParse(toks[3])
                     /\ JoinedBySpaces(e.message, toks, 4)
                     /\ ~StartsWith(TrimStart(line), "[") => entries[1][i] = e
              /\ \A ts \in {TsA, TsB, TsFrac}, msg \in Messages :
                    line = SimpleForm(ts, LvERROR, msg) =>
                        /\ entries[1][i].level = Error
                        /\ entries[1][i].timestamp = parse_timestamp(ts)
                        /\ entries[1][i].message = msg

\* C8's case: Scenario B's line has been parsed.
C8_Witness ==
    /\ pc[1] = "done"
    /\ lines[1] = <<LineB>>
    /\ entries[1][1].level = Error
    /\ entries[1][1].message = MsgNpe

\* C9: a line that starts with "[" and has fewer than 3 parts is not taken
\* by the bracketed matcher; with fewer than 3 tokens it becomes the event
\* without timestamp, of level Unknown("unknown"), whose message is the
\* line, and the analysis does not fail.
C9_FewPartsFallThrough ==
    \A i \in Parsed(1) :
        LET line == lines[1][i]
        IN  (StartsWith(line, "[") /\ Cardinality(Occurrences(line, "]")) < 2) =>
              /\ parse_standard_format(line) = None
              /\ Len(entries[1]) >= i
              /\ IF Len(SplitWhitespace(line)) < 3
                 THEN /\ entries[1][i].timestamp = None
                      /\ entries[1][i].level = Unknown(<<"u", "n", "k", "n", "o", "w", "n">>)
                      /\ entries[1][i].message = line
                 ELSE <<entries[1][i]>> = parse_simple_format(line)
              /\ result[1].kind # "Err"
              /\ pc[1] = "done" => Succeeded(1)

\* C9's case: Scenario D's line has become the default event.
C9_Witness ==
    /\ pc[1] = "done"
    /\ \E i \in 1..Len(lines[1]) :
          /\ lines[1][i] = LineD
          /\ entries[1][i].message = LineD
          /\ entries[1][i].level.tag = "Unknown"

\* The number of times word w is a token of the message of an Error or
\* Critical event.
ErrorTokenCount(a, w) ==
    LET Count[i \in 0..Len(entries[a])] ==
            IF i = 0 THEN 0
            ELSE Count[i - 1] +
                 (IF entries[a][i].level.tag \in {"Error", "Critical"}
                  THEN Cardinality(Occurrences(SplitWhitespace(entries[a][i].message), w))
                  ELSE 0)
    IN  Count[Len(entries[a])]

\* Every token of every message.
AllTokens(a) ==
    UNION {{SplitWhitespace(entries[a][i].message)[j] :
              j \in 1..Len(SplitWhitespace(entries[a][i].message))} :
           i \in 1..Len(entries[a])}

\* C10: error_patterns maps exactly the tokens of Error and Critical
\* messages that are longer than 3 characters and hold an uppercase
\* character, each to the number of its occurrences; keys are case-sensitive.
C10_ErrorPatternsExact ==
    Succeeded(1) =>
        LET patterns == Returned(1).error_patterns
            wanted == {w \in AllTokens(1) :
                         /\ ErrorTokenCount(1, w) > 0
                         /\ Len(w) > 3
                         /\ \E k \in 1..Len(w) : IsUppercase(w[k])}
        IN  /\ DOMAIN patterns = wanted
            /\ \A w \in wanted : patterns[w] = ErrorTokenCount(1, w)

\* C11: the length threshold of an error pattern counts characters: no key
\* of error_patterns has 3 characters or fewer, non-ASCII characters
\* included.
C11_ThresholdCountsCharacters ==
    Succeeded(1) =>
        \A w \in DOMAIN Returned(1).error_patterns : Len(w) > PatternMinLen

\* The messages of the events.
MessagesOf(a) == {entries[a][i].message : i \in 1..Len(entries[a])}

\* C12: top_messages holds one entry per distinct message, compared as exact
\* strings, with the number of events that carry it, in the order of
\* non-increasing count.
C12_TopMessagesPerDistinctMessage ==
    Succeeded(1) =>
        LET top == Returned(1).top_messages
        IN  /\ {top[j][1] : j \in 1..Len(top)} = MessagesOf(1)
            /\ Len(top) = Cardinality(MessagesOf(1))
            /\ \A j \in 1..Len(top) :
                  top[j][2] = Cardinality({i \in 1..Len(entries[1]) :
                                              entries[1][i].message = top[j][1]})
            /\ \A j \in 1..(Len(top) - 1) : top[j][2] >= top[j + 1][2]

\* C12's case: two messages that differ in case only, one carried by two
\* events and one by one.
C12_Witness ==
    /\ Succeeded(1)
    /\ Len(Returned(1).top_messages) = 2
    /\ Returned(1).top_messages[1] = <<MsgStartedCaps, 2>>
    /\ Returned(1).top_messages[2] = <<MsgStarted, 1>>
    /\ ToLowercase(MsgStartedCaps) = MsgStarted

\* The (year, month, day, hour) a timestamp falls in.
HourOf(ts) == <<ts[1], ts[2], ts[3], ts[4]>>

\* key is "YYYY-MM-DD HH" and names the hour h.
IsHourKey(key, h) ==
    /\ Len(key) = 13
    /\ \A i \in {1, 2, 3, 4, 6, 7, 9, 10, 12, 13} : IsDigit(key[i])
    /\ key[5] = "-" /\ key[8] = "-" /\ key[11] = " "
    /\ <<Num4(key, 1), Num2(key, 6), Num2(key, 9), Num2(key, 12)>> = h

\* C13: time_distribution has one key "YYYY-MM-DD HH" for each hour in
\* which an event with a timestamp falls, its count is the number of the
\* events of that hour, and events without a timestamp add to no key.
C13_TimeDistributionByHour ==
    Succeeded(1) =>
        LET dist == Returned(1).time_distribution
            hours == {HourOf(entries[1][i].timestamp) : i \in Timestamped(1)}
        IN  /\ \A key \in DOMAIN dist : \E h \in hours : IsHourKey(key, h)
            /\ \A h \in hours :
                  \E key \in DOMAIN dist :
                      /\ IsHourKey(key, h)
                      /\ dist[key] = Cardinality({i \in Timestamped(1) :
                                                    HourOf(entries[1][i].timestamp) = h})
            /\ Cardinality(DOMAIN dist) = Cardinality(hours)

\* C13's case: two events in one hour, one in another hour of the same day.
C13_Witness ==
    /\ Succeeded(1)
    /\ \E k1, k2 \in DOMAIN Returned(1).time_distribution :
          /\ Returned(1).time_distribution[k1] = 2
          /\ Returned(1).time_distribution[k2] = 1
          /\ SubSeq(k1, 1, 10) = SubSeq(k2, 1, 10)

\* The names of the closed severities, lower-cased.
LevelTable ==
    {<<<<"d", "e", "b", "u", "g">>, Debug>>,
     <<<<"i", "n", "f", "o">>, Info>>,
     <<<<"w", "a", "r", "n", "i", "n", "g">>, Warning>>,
     <<<<"w", "a", "r", "n">>, Warning>>,
     <<<<"e", "r", "r", "o", "r">>, Error>>,
     <<<<"e", "r", "r">>, Error>>,
     <<<<"c", "r", "i", "t", "i", "c", "a", "l">>, Critical>>,
     <<<<"f", "a", "t", "a", "l">>, Critical>>}

\* The class of token t: the severity its lower-cased form names, or
\* Unknown with t as it is.
Classified(t) ==
    IF \E p \in LevelTable : p[1] = ToLowercase(t)
    THEN (CHOOSE p \in LevelTable : p[1] = ToLowercase(t))[2]
    ELSE Unknown(t)

\* The token a matcher hands to the level classifier for a line.
LevelToken(line) ==
    IF parse_standard_format(line) # None
    THEN Trim(TrimStartMatches(Split(Trim(line), "]")[2], "["))
    ELSE SplitWhitespace(line)[3]

\* C14: the level classifier is total and case-insensitive: the level of an
\* event is the severity that its lower-cased level token names, and
\* otherwise Unknown with the token in its original form.
C14_LevelClassifier ==
    \A i \in Parsed(1) :
        LET line == lines[1][i]
        IN  (parse_standard_format(line) # None \/ parse_simple_format(line) # None) =>
              /\ entries[1][i].level = Classified(LevelToken(line))
              /\ entries[1][i].level.tag \in
                     {"Debug", "Info", "Warning", "Error", "Critical", "Unknown"}

\* C14's case: "Critical" has given Critical, or "TRACE" has given
\* Unknown("TRACE").
C14_Witness ==
    /\ pc[1] = "done"
    /\ \/ /\ lines[1] = <<SimpleForm(TsA, LvTRACE, MsgStarted)>>
          /\ entries[1][1].level = Unknown(LvTRACE)
          /\ ToLowercase(LvTRACE) # LvTRACE
       \/ /\ lines[1] = <<SimpleForm(TsA, LvCritical, MsgStarted)>>
          /\ entries[1][1].level = Critical

\* C15: the analysis of the empty file succeeds with the zero-valued
\* analysis.
C15_EmptyInputGivesZeroAnalysis ==
    (pc[1] = "done" /\ file[1].exists /\ file[1].readable /\ file[1].content = <<>>)
        => /\ result[1] = Ok(NewAnalysis)
           /\ Returned(1).total_entries = 0
           /\ Returned(1).level_distribution = EmptyMap
           /\ Returned(1).time_distribution = EmptyMap
           /\ Returned(1).error_patterns = EmptyMap
           /\ Returned(1).top_messages = <<>>
           /\ Returned(1).time_range = None

\* C15's case: the empty file has been analysed.
C15_Witness ==
    /\ Succeeded(1)
    /\ file[1].content = <<>>
    /\ lines[1] = <<>>
    /\ pc[1] = "done"

\* The file of analysis a exists and can be read.
Readable(a) == file[a].exists /\ file[a].readable

\* C16: the analysis is total over content: for a file that exists and can
\* be read no step fails, every line gives one event, and the run returns
\* Ok when it ends.
C16_TotalOverContent ==
    Readable(1) =>
        /\ result[1].kind # "Err"
        /\ Len(entries[1]) = next_line[1] - 1
        /\ pc[1] = "done" =>
              /\ Succeeded(1)
              /\ Returned(1).total_entries = Len(Lines(file[1].content))

\* C16's case: a file of an unparsable line, a line with a malformed
\* timestamp and an unknown level, and an empty line has been analysed.
C16_Witness ==
    /\ Succeeded(1)
    /\ Returned(1).total_entries = 3
    /\ \A l \in {LineC, LineNoTs, LineEmpty} : Occurrences(lines[1], l) # {}

\* C17: a missing path gives FileNotFound with that path and a failed read
\* the I/O error, in both cases before any line is read or analysed and
\* with no analysis returned; Ok is returned only after the whole input was
\* read.
C17_InputUnavailableFailsFirst ==
    /\ result[1].kind = "Err" =>
          /\ ~Readable(1)
          /\ result[1].error = <<IF file[1].exists THEN "IoError" ELSE "FileNotFound",
                                 file[1].path>>
          /\ result[1].value = NewAnalysis
          /\ analysis[1] = NewAnalysis
          /\ lines[1] = <<>> /\ entries[1] = <<>> /\ next_line[1] = 1
    /\ (pc[1] = "done" /\ ~Readable(1)) => result[1].kind = "Err"
    /\ Succeeded(1) =>
          /\ Readable(1)
          /\ lines[1] = Lines(file[1].content)
          /\ next_line[1] = Len(lines[1]) + 1

\* C17's case: the analysis of a path that does not exist has returned.
C17_Witness ==
    /\ pc[1] = "done"
    /\ ~file[1].exists
    /\ file[1].path = PathOther
    /\ result[1] = Err("FileNotFound", PathOther)

\* The events of a sequence of lines.
EntriesOf(ls) == [i \in 1..Len(ls) |-> parse_log_line(ls[i])[1]]

\* What analyze_log_file can return for file f when nothing else runs: the
\* passes one after the other, for every order of iteration of the map of
\* messages.
AloneResults(f) ==
    IF ~f.exists THEN {Err("FileNotFound", f.path)}
    ELSE IF ~f.readable THEN {Err("IoError", f.path)}
    ELSE LET es == EntriesOf(Lines(f.content))
             tss == EntryTimestamps(es)
             counted == [NewAnalysis EXCEPT !.total_entries = Len(es)]
         IN  IF es = <<>> THEN {Ok(counted)}
             ELSE {Ok([counted EXCEPT
                         !.level_distribution = BumpAll(EmptyMap, EntryLevels(es)),
                         !.time_distribution =
                             BumpAll(EmptyMap, [i \in 1..Len(tss) |-> hour_key(tss[i])]),
                         !.time_range =
                             IF tss = <<>> THEN None
                             ELSE <<SortTs(tss)[1], SortTs(tss)[Len(tss)]>>,
                         !.error_patterns = BumpAll(EmptyMap, PatternWords(es)),
                         !.top_messages = SortByCountDesc(o)]) :
                   o \in IterationOrders(BumpAll(EmptyMap, EntryMessages(es)))}

\* Every analysis that has returned has returned what it can return alone.
C18_SameAsAlone ==
    \A a \in DOMAIN pc : pc[a] = "done" => result[a] \in AloneResults(file[a])

\* A step that is not a step of analysis a leaves all that a owns as it is.
C18_OwnStateOnly ==
    \A a \in DOMAIN pc :
        (pc'[a] = pc[a] /\ next_line'[a] = next_line[a]) =>
            /\ file'[a] = file[a] /\ lines'[a] = lines[a]
            /\ entries'[a] = entries[a] /\ timestamps'[a] = timestamps[a]
            /\ message_counts'[a] = message_counts[a]
            /\ analysis'[a] = analysis[a] /\ result'[a] = result[a]

\* C18: analyses whose steps interleave share no state: each returns what
\* it returns when it runs alone on its file, and no step of one changes
\* the lines, events, aggregates or result of another.
C18_NoSharedState == [](C18_SameAsAlone) /\ [][C18_OwnStateOnly]_vars

\* C18's case: one analysis has returned while the other, on another text,
\* is between its passes.
C18_Witness ==
    /\ Succeeded(1)
    /\ Len(Returned(1).top_messages) = 2
    /\ pc[2] = "messages"
    /\ entries[2] # <<>>
    /\ file[2].content # file[1].content

\* The level of an entry: 0 for the entries of the root.
Level(n) == Len(n.path) - 1

\* The files of the tree that lie in directories at most max_depth levels
\* below the root.
FilesWithin(tree, max_depth) ==
    {n \in tree : ~n.is_dir /\ (max_depth = None \/ Level(n) <= max_depth[1])}

RECURSIVE SumSizes(_)
SumSizes(nodes) ==
    IF nodes = {} THEN 0
    ELSE LET n == CHOOSE x \in nodes : TRUE IN n.size + SumSizes(nodes \ {n})

\* The extensions of a set of files.
ExtensionsOf(nodes) ==
    {Extension(n.path[Len(n.path)])[1] :
        n \in {x \in nodes : Extension(x.path[Len(x.path)]) # None}}

\* C19: a scan with max_depth = d that succeeds has counted exactly the
\* files of directories at most d levels below the root in total_files,
\* total_size and extension_stats, and no file that lies deeper.
C19_DepthLimit ==
    (scan_pc = "done" /\ scan_result.kind = "Ok") =>
        LET counted == FilesWithin(fs_tree, scan_args.max_depth)
            stats == scan_result.value
        IN  /\ stats.total_files = Cardinality(counted)
            /\ stats.total_size = SumSizes(counted)
            /\ DOMAIN stats.extension_stats = ExtensionsOf(counted)
            /\ \A ext \in ExtensionsOf(counted) :
                  stats.extension_stats[ext] =
                      Cardinality({n \in counted : Extension(n.path[Len(n.path)]) = <<ext>>})
            /\ \A i \in 1..Len(stats.largest_files) :
                  Len(stats.largest_files[i].path) - 1 <= MaxDepthOf(scan_args.max_depth)

\* C19's case: a scan with max_depth = 1 of a tree with a file at each of
\* the levels 0 to 3 has counted the two files of the levels 0 and 1.
C19_Witness ==
    /\ scan_pc = "done"
    /\ scan_args.max_depth = <<1>>
    /\ {FileRoot, FileLevel1, FileLevel2, FileLevel3} \subseteq fs_tree
    /\ FileSubdir \notin fs_tree
    /\ scan_result.kind = "Ok"
    /\ scan_result.value.total_files = 2
    /\ scan_result.value.total_size = FileRoot.size + FileLevel1.size

\* The positions of text where a token starts: a character that is not
\* whitespace, at the start or right after whitespace.
TokenStarts(text) ==
    {i \in 1..Len(text) : ~IsWhitespace(text[i]) /\ (i = 1 \/ IsWhitespace(text[i - 1]))}

\* The token of text that starts at position i.
TokenAt(text, i) ==
    LET ends == {j \in i..Len(text) : j = Len(text) \/ IsWhitespace(text[j + 1])}
    IN  SubSeq(text, i, Min(ends))

\* The key of a token: its alphanumeric characters, lower-cased.
KeyOf(token) ==
    LET kept == {i \in 1..Len(token) : IsAlphanumeric(token[i])}
    IN  [k \in 1..Cardinality(kept) |-> CharToLower(token[Kth(kept, k)])]

\* C20: after analyze_text(t) on a fresh TextStats, word_count is the number
\* of tokens of t, word_frequency counts every token under its lower-cased
\* alphanumeric characters, tokens without any left out, the frequencies sum
\* to word_count at most, and the empty text leaves every counter 0.
C20_FreshTextStats ==
    (text_frame.pc = "idle" /\ Len(analysed) = 1) =>
        LET t == analysed[1]
            keyed == {i \in TokenStarts(t) : KeyOf(TokenAt(t, i)) # <<>>}
            keys == {KeyOf(TokenAt(t, i)) : i \in keyed}
        IN  /\ text_stats.word_count = Cardinality(TokenStarts(t))
            /\ DOMAIN text_stats.word_frequency = keys
            /\ \A k \in keys :
                  text_stats.word_frequency[k] =
                      Cardinality({i \in keyed : KeyOf(TokenAt(t, i)) = k})
            /\ SumMap(text_stats.word_frequency) <= text_stats.word_count
            /\ t = <<>> => text_stats = NewTextStats

\* C20's case: "Hello world! This is a test." has been analysed by a fresh
\* TextStats.
C20_Witness ==
    /\ text_frame.pc = "idle"
    /\ analysed = <<TextSentence>>
    /\ text_stats.word_count = 6
    /\ text_stats.word_frequency[WdHelloLower] = 1
    /\ <<"w", "o", "r", "l", "d">> \in DOMAIN text_stats.word_frequency
    /\ WdWorldBang \notin DOMAIN text_stats.word_frequency

\* C21: the matchers are tried in the order bracketed, whitespace, fallback
\* and the first that accepts the line gives the event: the whitespace
\* result is used only when the bracketed matcher rejects the line, the
\* fallback only when both do, and every line gives exactly one event.
C21_MatchersInFixedOrder ==
    /\ Len(entries[1]) = Cardinality(Parsed(1))
    /\ \A i \in Parsed(1) :
          LET line == lines[1][i]
              bracketed == parse_standard_format(line)
              whitespace == parse_simple_format(line)
          IN  /\ bracketed # None => entries[1][i] = bracketed[1]
              /\ (bracketed = None /\ whitespace # None) => entries[1][i] = whitespace[1]
              /\ (bracketed = None /\ whitespace = None) =>
                    entries[1][i] = default_entry(line)

\* C21's case: a line that both matchers accept, with different events, has
\* given the event of the bracketed matcher.
C21_Witness ==
    /\ pc[1] = "done"
    /\ \E i \in 1..Len(lines[1]) :
          /\ parse_standard_format(lines[1][i]) # None
          /\ Len(SplitWhitespace(lines[1][i])) >= 3
          /\ parse_simple_format(lines[1][i]) # parse_standard_format(lines[1][i])
          /\ <<entries[1][i]>> = parse_standard_format(lines[1][i])

\* The line starts with "[" and the split on "]" has 3 parts or more.
BracketStructure(line) ==
    StartsWith(line, "[") /\ Cardinality(Occurrences(line, "]")) >= 2

\* C22: a line of the bracketed structure whose timestamp candidate does not
\* parse gives the bracketed matcher's event without a timestamp, and a line
\* that the bracketed matcher rejects, with 3 tokens or more and no
\* timestamp in its first two, gives the whitespace matcher's event without
\* a timestamp; neither becomes the fallback event.
C22_StructuralMatchIsFinal ==
    \A i \in Parsed(1) :
        LET line == lines[1][i]
            parts == Split(line, "]")
            toks == SplitWhitespace(line)
        IN  /\ (BracketStructure(line)
                  /\ parse_timestamp(TrimStartMatches(parts[1], "[")) = None) =>
                  /\ entries[1][i].timestamp = None
                  /\ entries[1][i].level = Classified(Trim(TrimStartMatches(parts[2], "[")))
                  /\ entries[1][i].message = Trim(Join(SubSeq(parts, 3, Len(parts)), <<"]">>))
                  /\ entries[1][i] # default_entry(line)
            /\ (parse_standard_format(line) = None /\ Len(toks) >= 3
                  /\ parse_timestamp(toks[1] \o <<" ">> \o toks[2]) = None) =>
                  /\ entries[1][i].timestamp = None
                  /\ entries[1][i].level = Classified(toks[3])
                  /\ JoinedBySpaces(entries[1][i].message, toks, 4)
                  /\ entries[1][i] # default_entry(line)

\* C22's case: "[bad][info] service started" has given an Info event
\* without a timestamp.
C22_Witness ==
    /\ pc[1] = "done"
    /\ lines[1] = <<LineNoTs>>
    /\ entries[1] = <<LogEntry(None, Info, MsgStarted)>>

\* C23: a line that does not itself start with "[" is rejected by the
\* bracketed matcher and becomes the whitespace matcher's event or the
\* fallback event.
C23_BracketMustComeFirst ==
    \A i \in Parsed(1) :
        LET line == lines[1][i]
        IN  ~StartsWith(line, "[") =>
              /\ parse_standard_format(line) = None
              /\ entries[1][i] = IF parse_simple_format(line) # None
                                 THEN parse_simple_format(line)[1]
                                 ELSE default_entry(line)

\* What follows the second "]" of a line.
AfterSecondBracket(line) ==
    SubSeq(line, Kth(Occurrences(line, "]"), 2) + 1, Len(line))

\* C24: the message of a line of the bracketed structure is all that
\* follows the second "]", every later "]" included, up to the whitespace
\* around it.
C24_BracketsInMessageKept ==
    \A i \in Parsed(1) :
        BracketStructure(lines[1][i]) =>
            entries[1][i].message = Trim(AfterSecondBracket(lines[1][i]))

\* C24's case: "[2024-01-15 10:30:00][ERROR]a]]b]" has given the message
\* "a]]b]".
C24_Witness ==
    /\ pc[1] = "done"
    /\ lines[1] = <<LineManyBrackets>>
    /\ entries[1][1].message = MsgManyBrackets
    /\ Cardinality(Occurrences(entries[1][1].message, "]")) = 3

\* The rank of each kind of level.
Rank(tag) ==
    CASE tag = "Debug" -> 0
      [] tag = "Info" -> 1
      [] tag = "Warning" -> 2
      [] tag = "Error" -> 3
      [] tag = "Critical" -> 4
      [] OTHER -> 0

\* C25: the severity of a level is its rank, 0 for every Unknown, so an
\* event is at or above Error exactly when its level is Error or Critical,
\* and error_patterns counts tokens of the messages of those events only.
C25_SeverityFilter ==
    /\ \A i \in 1..Len(entries[1]) :
          LET level == entries[1][i].level
          IN  /\ severity(level) = Rank(level.tag)
              /\ IsErrorEntry(entries[1][i]) <=> level.tag \in {"Error", "Critical"}
    /\ Succeeded(1) =>
          /\ \A w \in DOMAIN Returned(1).error_patterns :
                Returned(1).error_patterns[w] = ErrorTokenCount(1, w)
          /\ \A w \in AllTokens(1) :
                (ErrorTokenCount(1, w) > 0 /\ IsPattern(w)) =>
                    w \in DOMAIN Returned(1).error_patterns

\* C25's case: an event of an Unknown level whose message holds tokens that
\* would be patterns has added nothing.
C25_Witness ==
    /\ Succeeded(1)
    /\ Len(entries[1]) = 1
    /\ entries[1][1].level.tag = "Unknown"
    /\ entries[1][1].message = MsgPatterns
    /\ \E k \in 1..Len(SplitWhitespace(MsgPatterns)) : IsPattern(SplitWhitespace(MsgPatterns)[k])
    /\ Returned(1).error_patterns = EmptyMap

\* The sum of the counts of a sequence of (message, count) pairs.
SumCounts(pairs) ==
    LET S[i \in 0..Len(pairs)] == IF i = 0 THEN 0 ELSE S[i - 1] + pairs[i][2]
    IN  S[Len(pairs)]

\* C26: the counts of top_messages sum to total_entries, every count is at
\* least 1 and no message is in two entries.
C26_TopMessagesPartitionEvents ==
    Succeeded(1) =>
        LET top == Returned(1).top_messages
        IN  /\ SumCounts(top) = Returned(1).total_entries
            /\ \A j \in 1..Len(top) : top[j][2] >= 1
            /\ \A j, k \in 1..Len(top) : top[j][1] = top[k][1] => j = k

\* C26's case: three events, two of them with the empty message.
C26_Witness ==
    /\ Succeeded(1)
    /\ Returned(1).total_entries = 3
    /\ Returned(1).top_messages[1] = <<MsgEmpty, 2>>
    /\ Len(Returned(1).top_messages) = 2

\* C27: the fallback event is given exactly for the lines that the
\* bracketed matcher rejects and that have fewer than 3 tokens; a rejected
\* line of 3 tokens or more gives the whitespace matcher's event, whose
\* level is the class of token 2 and whose message is made of the tokens
\* from 3 on, whether or not tokens 0 and 1 are a timestamp.
C27_FallbackOnlyForShortLines ==
    \A i \in Parsed(1) :
        LET line == lines[1][i]
            toks == SplitWhitespace(line)
            rejected == parse_standard_format(line) = None
        IN  /\ entries[1][i] = default_entry(line) <=> (rejected /\ Len(toks) < 3)
            /\ (rejected /\ Len(toks) >= 3) =>
                  /\ entries[1][i].timestamp = parse_timestamp(toks[1] \o <<" ">> \o toks[2])
                  /\ entries[1][i].level = Classified(toks[3])
                  /\ SplitWhitespace(entries[1][i].message) = SubSeq(toks, 4, Len(toks))

\* C27's case: "random unparseable garbage" has given an event of level
\* Unknown("garbage") with an empty message, not the fallback event.
C27_Witness ==
    /\ pc[1] = "done"
    /\ lines[1] = <<LineC>>
    /\ entries[1] = <<LogEntry(None, Unknown(SplitWhitespace(LineC)[3]), <<>>)>>
    /\ entries[1][1] # default_entry(LineC)

\* C28: after set(k, v) the call get(k) returns v, for keys with a '.' too,
\* and has_key(k) holds exactly when get(k) returns a value, also for the
\* entries of a loaded INI file.
C28_SetGetRoundTrip ==
    /\ config_call.op = "set" =>
          get(config_data, config_call.key) = <<config_call.value>>
    /\ \A k \in ConfigKeys \cup DOMAIN config_data :
          has_key(config_data, k) <=> get(config_data, k) # None

\* The files, directories left out, that add_file was given.
AddedFiles == {f \in FileInfos : ~f.is_dir}

\* How many files of the sizes in zs add_file was given.
AddedOfSizes(zs) ==
    LET S[fs \in SUBSET AddedFiles] ==
            IF fs = {} THEN 0
            ELSE LET f == CHOOSE x \in fs : TRUE
                 IN  (IF f.size \in zs THEN added[f] ELSE 0) + S[fs \ {f}]
    IN  S[AddedFiles]

AllSizes == {f.size : f \in AddedFiles}

\* Of the n largest files given, how many have size z.
LargestOfSize(z, n) ==
    LET room == n - AddedOfSizes({y \in AllSizes : y > z})
    IN  IF room <= 0 THEN 0
        ELSE IF room < AddedOfSizes({z}) THEN room ELSE AddedOfSizes({z})

\* largest_files has min(10, files added) entries, in non-increasing
\* order of size, with the sizes of the largest files added.
C29_LargestKept ==
    LET largest == held_stats.largest_files
        n == AddedOfSizes(AllSizes)
    IN  /\ Len(largest) = IF n < 10 THEN n ELSE 10
        /\ \A i \in 1..(Len(largest) - 1) : largest[i].size >= largest[i + 1].size
        /\ \A i \in 1..Len(largest) : ~largest[i].is_dir
        /\ \A z \in AllSizes :
              Cardinality({i \in 1..Len(largest) : largest[i].size = z})
                  = LargestOfSize(z, Len(largest))

\* Adding a directory adds 1 to total_dirs and changes nothing else.
C29_DirectoryOnlyCounted ==
    added'[InfoDir] # added[InfoDir] =>
        held_stats' = [held_stats EXCEPT !.total_dirs = @ + 1]

\* C29: after any sequence of add_file calls largest_files has min(10, n)
\* entries for n files added, is sorted by size in non-increasing order and
\* holds the largest sizes added; adding a directory changes total_dirs
\* only.
C29_LargestFilesInvariant == [](C29_LargestKept) /\ [][C29_DirectoryOnlyCounted]_vars

\* C29's case: more than 10 files and a directory were added, and a small
\* file that was added is not among the 10 largest.
C29_Witness ==
    /\ AddedOfSizes(AllSizes) > 10
    /\ added[InfoDir] >= 1
    /\ held_stats.total_dirs = added[InfoDir]
    /\ added[InfoSmall] >= 1
    /\ Len(held_stats.largest_files) = 10
    /\ \A i \in 1..10 : held_stats.largest_files[i].size > InfoSmall.size

\* C30: after analyze_text(t) on a TextStats that has analysed another text
\* before, word_count, line_count, char_count, byte_count and
\* word_frequency are what a fresh TextStats holds after analyze_text(t).
C30_AnalyzeTextReplaces ==
    (text_frame.pc = "idle" /\ Len(analysed) = 2) =>
        LET t == analysed[2]
            keyed == {i \in TokenStarts(t) : KeyOf(TokenAt(t, i)) # <<>>}
            keys == {KeyOf(TokenAt(t, i)) : i \in keyed}
        IN  /\ text_stats.word_count = Cardinality(TokenStarts(t))
            /\ text_stats.line_count = Len(Lines(t))
            /\ text_stats.char_count = Len(t)
            /\ text_stats.byte_count = ByteLen(t)
            /\ DOMAIN text_stats.word_frequency = keys
            /\ \A k \in keys :
                  text_stats.word_frequency[k] =
                      Cardinality({i \in keyed : KeyOf(TokenAt(t, i)) = k})

=============================================================================
